---- MODULE Spec2Model ----
(***************************************************************************)
(* A model of the earthquake backend: the feed listener (listener.py), the *)
(* DuckDB gateway and query builder (database.py), the bulk import         *)
(* (manage.py) and the process wiring (main.py).                           *)
(*                                                                         *)
(* The module holds several specifications over one set of variables, one  *)
(* per subsystem; each leaves the other subsystems' variables unchanged:   *)
(*   Spec          the write path: process_message and insert_earthquake   *)
(*                 over a stream of feed messages                          *)
(*   SpecNormalize process_message applied to one arbitrary raw payload    *)
(*   SpecInsert    insert_earthquake called directly, a few times          *)
(*   SpecSession   launch_client, listen, the restart timer and shutdown   *)
(*   SpecPool      threads going through _connection_scope, and close      *)
(*   SpecPoolFair  SpecPool with threads that go on running                *)
(*   SpecQuery     builder calls on one EarthquakeQuery, and _build_sql    *)
(*   SpecNearest   one chain of filter calls with nearest placed in it     *)
(*   SpecRecent    get_recent_earthquakes over a table of stored events    *)
(*   SpecRead      the query functions and the service functions built on  *)
(*                 them, over a table of stored events                     *)
(*   SpecStore     one table under feed messages, bulk imports and reads   *)
(*   SpecImport    import_csv applied to one CSV file                      *)
(*   SpecRedelivery  feed messages delivered again after failed writes     *)
(***************************************************************************)
EXTENDS Integers, Sequences, FiniteSets, TLC

VARIABLES
    store,      \* the earthquakes table: a set of rows
    newEq,      \* per unid, the number of "New EQ" log lines written so far
    last,       \* what the last process_message call did (outcome, log lines)
    inbox,      \* SpecNormalize: the raw payload handed to process_message;
                \* SpecImport: the CSV file handed to import_csv
    hist,       \* SpecInsert, SpecImport: the insert_earthquake calls made so far;
                \* SpecRedelivery: the messages delivered so far
    store0,     \* the table as it was when the process started
    \* the ingestion session (SpecSession)
    entry,      \* the entry point: "main" (main.py) or "listener" (listener.py)
    lc,         \* where the launch_client coroutine stands
    currentWs,  \* listener._current_ws: "none", or a connection "open" / "closed"
    loop,       \* the IOLoop: "running", "stopping" (stop() called), "stopped"
    shutdownRequested,  \* a SIGINT / SIGTERM has arrived
    cleanupPending,     \* main.py: cleanup is queued on the loop
    exited,     \* loop.start() has returned and the finally block has run
    sleepLeft,  \* seconds left of the running gen.sleep
    failures,   \* consecutive failed handshakes
    \* the connection pool (SpecPool)
    connectionPool,  \* database._connection_pool: 0 (None) or a pool
    pools,      \* the SingleConnectionPool objects: _lock owner and _conn
    tpc,        \* where each thread stands in _connection_scope
    tpool,      \* each thread's local variable pool
    \* the read path (SpecQuery, SpecNearest, SpecRecent, SpecRead)
    query,      \* the EarthquakeQuery object under construction
    ncalls,     \* builder calls made on it so far
    called,     \* the builder methods called on it so far
    now,        \* datetime.now(), in hours
    answer      \* what the last read returned

ingestVars == <<store, newEq, last, inbox, hist, store0>>

sessionVars == <<entry, lc, currentWs, loop, shutdownRequested, cleanupPending,
                 exited, sleepLeft, failures>>

poolVars == <<connectionPool, pools, tpc, tpool>>

queryVars == <<query, ncalls, called, now, answer>>

vars == <<store, newEq, last, inbox, hist, store0,
          entry, lc, currentWs, loop, shutdownRequested, cleanupPending,
          exited, sleepLeft, failures,
          connectionPool, pools, tpc, tpool,
          query, ncalls, called, now, answer>>

\* What an action of one subsystem leaves alone
OutsideIngest == UNCHANGED <<sessionVars, poolVars, queryVars>>
OutsideSession == UNCHANGED <<ingestVars, poolVars, queryVars>>
OutsidePool == UNCHANGED <<ingestVars, sessionVars, queryVars>>
OutsideQuery == UNCHANGED <<ingestVars, sessionVars, poolVars>>

(***************************************************************************)
(* Values.                                                                 *)
(***************************************************************************)

\* JSON scalars are kept as their text; ToFloat is Python's float() on them.
Unids == {"u1", "u2"}
NumberTexts == {"4", "5", "7", "10", "20"}
NonNumericText == "abc"

IsNumeric(s) == s \in NumberTexts

ToFloat(s) ==
    CASE s = "4" -> 4
      [] s = "5" -> 5
      [] s = "7" -> 7
      [] s = "10" -> 10
      [] s = "20" -> 20

\* Time texts. The feed sends ISO-8601 with a Z suffix; the canonical form is
\* strftime("%Y-%m-%dT%H:%M:%S.%fZ"). A TIMESTAMP is counted in hours since
\* 2024-01-01T00:00:00; the texts of the first hours are tabulated.
FeedIsoTable ==
    <<"2024-01-01T00:00:00Z", "2024-01-01T01:00:00Z", "2024-01-01T02:00:00Z",
      "2024-01-01T03:00:00Z", "2024-01-01T04:00:00Z", "2024-01-01T05:00:00Z">>
CanonicalTable ==
    <<"2024-01-01T00:00:00.000000Z", "2024-01-01T01:00:00.000000Z",
      "2024-01-01T02:00:00.000000Z", "2024-01-01T03:00:00.000000Z",
      "2024-01-01T04:00:00.000000Z", "2024-01-01T05:00:00.000000Z">>
Hours == 0..(Len(CanonicalTable) - 1)
FeedIsoTexts == {FeedIsoTable[h + 1] : h \in Hours}
CanonicalTexts == {CanonicalTable[h + 1] : h \in Hours}
GarbageTime == "garbage"
NoneText == "None"

\* datetime.fromisoformat(t.replace("Z", "+00:00")) succeeds
IsoParseable(t) == t \in FeedIsoTexts \cup CanonicalTexts

\* The hour a parseable text names
HourOf(t) == CHOOSE h \in Hours : t \in {FeedIsoTable[h + 1], CanonicalTable[h + 1]}

\* dt.strftime("%Y-%m-%dT%H:%M:%S.%fZ")
Strftime(h) == CanonicalTable[h + 1]

\* DuckDB's cast of a VARCHAR parameter to TIMESTAMP
TimestampCastable(t) == t \in FeedIsoTexts \cup CanonicalTexts

CastTimestamp(t) == HourOf(t)

\* Region texts are sequences of characters.
RegionTexts == { <<>>, <<"A", ",", "B">> }

\* str.replace(",", " ")
ReplaceComma(s) == [i \in DOMAIN s |-> IF s[i] = "," THEN " " ELSE s[i]]

\* An optional number: <<>> is None / NULL, <<x>> is x.
None == <<>>
Some(x) == <<x>>

\* ST_Point(longitude, latitude)
STPoint(lon, lat) == <<lon, lat>>

(***************************************************************************)
(* database.insert_earthquake                                              *)
(***************************************************************************)

\* What makes the write fail before or in the statement: the connection cannot
\* be opened or the statement raises for a reason of the store's.
Faults == {"none", "connection"}

\* created_at TIMESTAMP DEFAULT CURRENT_TIMESTAMP: the INSERT names no
\* created_at, and the column takes the time of the write, which the model
\* does not tell apart from one write to the next
CurrentTimestamp == "CURRENT_TIMESTAMP"

\* The row as it would be with the two arguments of ST_Point exchanged
RowOfTransposed(data) ==
    [unid |-> data.unid,
     time |-> CastTimestamp(data.time),
     latitude |-> data.latitude,
     longitude |-> data.longitude,
     depth |-> data.depth,
     magnitude |-> data.magnitude,
     region |-> data.region,
     geom |-> STPoint(data.latitude, data.longitude),
     created_at |-> CurrentTimestamp]

\* The row the INSERT statement builds from its nine parameters.
RowOf(data) ==
    [unid |-> data.unid,
     time |-> CastTimestamp(data.time),
     latitude |-> data.latitude,
     longitude |-> data.longitude,
     depth |-> data.depth,
     magnitude |-> data.magnitude,
     region |-> data.region,
     geom |-> STPoint(data.longitude, data.latitude),
     created_at |-> CurrentTimestamp]

\* The statement raises: the time parameter is NULL (NOT NULL column) or is
\* not castable to TIMESTAMP.
StatementRaises(data) ==
    \/ data.time = NoneText
    \/ ~TimestampCastable(data.time)

\* ON CONFLICT (unid) DO NOTHING
Conflicts(data, st) == \E r \in st : r.unid = data.unid

\* insert_earthquake as it would be with INSERT OR REPLACE in place of
\* ON CONFLICT (unid) DO NOTHING: a duplicate overwrites the stored row.
InsertEarthquakeReplacing(data, st, fault) ==
    IF fault # "none" \/ StatementRaises(data)
    THEN [ok |-> FALSE, store |-> st, attempts |-> 1]
    ELSE [ok |-> TRUE, attempts |-> 1,
          store |-> {r \in st : r.unid # data.unid} \cup {RowOf(data)}]

\* insert_earthquake as it would be if a failed write left its row behind
InsertEarthquakeKeepingFailed(data, st, fault) ==
    IF StatementRaises(data)
    THEN [ok |-> FALSE, store |-> st, attempts |-> 1]
    ELSE IF fault # "none"
    THEN [ok |-> FALSE, store |-> st \cup {RowOf(data)}, attempts |-> 1]
    ELSE IF Conflicts(data, st)
         THEN [ok |-> TRUE, store |-> st, attempts |-> 1]
         ELSE [ok |-> TRUE, store |-> st \cup {RowOf(data)}, attempts |-> 1]

\* insert_earthquake as it would be if it returned true whatever the write did
InsertEarthquakeAlwaysTrue(data, st, fault) ==
    IF fault # "none" \/ StatementRaises(data)
    THEN [ok |-> TRUE, store |-> st, attempts |-> 1]
    ELSE IF Conflicts(data, st)
         THEN [ok |-> TRUE, store |-> st, attempts |-> 1]
         ELSE [ok |-> TRUE, store |-> st \cup {RowOf(data)}, attempts |-> 1]

\* insert_earthquake as it would be with a second try after a failed one
InsertEarthquakeRetrying(data, st, fault) ==
    IF fault # "none" \/ StatementRaises(data)
    THEN [ok |-> FALSE, store |-> st, attempts |-> 2]
    ELSE IF Conflicts(data, st)
         THEN [ok |-> TRUE, store |-> st, attempts |-> 1]
         ELSE [ok |-> TRUE, store |-> st \cup {RowOf(data)}, attempts |-> 1]

\* insert_earthquake(data) on table st: the value returned, the table after,
\* and the number of times the write was tried (one try block, no loop).
InsertEarthquake(data, st, fault) ==
    IF fault # "none" \/ StatementRaises(data)
    THEN [ok |-> FALSE, store |-> st, attempts |-> 1]
    ELSE IF Conflicts(data, st)
         THEN [ok |-> TRUE, store |-> st, attempts |-> 1]
         ELSE [ok |-> TRUE, store |-> st \cup {RowOf(data)}, attempts |-> 1]

(***************************************************************************)
(* Feed payloads.                                                          *)
(*                                                                         *)
(* A raw payload is described by what json.loads makes of it (top), by the *)
(* kind of its data, properties and geometry members, and by the members   *)
(* of properties and geometry. Members of a container that is not an       *)
(* object do not exist; their fields are left "absent".                    *)
(***************************************************************************)

Payload0 ==
    [top |-> "obj", data |-> "obj", props |-> "obj", geometry |-> "obj",
     unid |-> "absent", mag |-> "absent", time |-> "absent",
     regionKind |-> "absent", regionText |-> <<>>, depth |-> "absent",
     coords |-> "absent", clist |-> <<>>]

NonObjects == {"null", "nonobj"}

UnidMembers == {"absent", "null"} \cup Unids
MagMembers == {"absent", "null", "4", "5", NonNumericText}
TimeMembers == {"absent", "", GarbageTime, "2024-01-01T00:00:00Z"}
DepthMembers == {"absent", "null", "7", NonNumericText}
RegionMembers ==
    {[kind |-> "absent", text |-> <<>>], [kind |-> "null", text |-> <<>>]}
    \cup {[kind |-> "str", text |-> t] : t \in RegionTexts}
LonItems == {"null", "10", NonNumericText}
LatItems == {"null", "20", NonNumericText}
CoordLists ==
    {<<>>} \cup {<<x>> : x \in LonItems} \cup {<<x, y>> : x \in LonItems, y \in LatItems}

\* The geometry member, with its coordinates
GeometryMembers ==
    {[geometry |-> g, coords |-> "absent", clist |-> <<>>] : g \in {"absent"} \cup NonObjects}
    \cup {[geometry |-> "obj", coords |-> c, clist |-> <<>>] : c \in {"absent", "null"}}
    \cup {[geometry |-> "obj", coords |-> "list", clist |-> l] : l \in CoordLists}

\* The properties member, with its members
PropsMembers ==
    {[props |-> p, unid |-> "absent", mag |-> "absent", time |-> "absent",
      region |-> [kind |-> "absent", text |-> <<>>], depth |-> "absent"] :
        p \in {"absent"} \cup NonObjects}
    \cup {[props |-> "obj", unid |-> u, mag |-> m, time |-> t, region |-> r, depth |-> d] :
            u \in UnidMembers, m \in MagMembers, t \in TimeMembers,
            r \in RegionMembers, d \in DepthMembers}

Payloads ==
    {[Payload0 EXCEPT !.top = t, !.data = "absent", !.props = "absent",
                      !.geometry = "absent"] : t \in {"notjson", "nonobj"}}
    \cup {[Payload0 EXCEPT !.data = d, !.props = "absent", !.geometry = "absent"] :
            d \in {"absent"} \cup NonObjects}
    \cup {[Payload0 EXCEPT !.props = p.props, !.unid = p.unid, !.mag = p.mag,
                           !.time = p.time, !.regionKind = p.region.kind,
                           !.regionText = p.region.text, !.depth = p.depth,
                           !.geometry = g.geometry, !.coords = g.coords,
                           !.clist = g.clist] :
            p \in PropsMembers, g \in GeometryMembers}

(***************************************************************************)
(* listener.process_message                                                *)
(***************************************************************************)

\* json.loads raises JSONDecodeError
NotJson(m) == m.top = "notjson"

\* An attribute or index lookup of lines 35-46 raises: .get on a value that
\* is no dict, or coordinates[0], coordinates[1] on None or a short list.
LookupRaises(m) ==
    \/ m.top = "nonobj"
    \/ m.data \in NonObjects
    \/ m.props \in NonObjects
    \/ m.geometry \in NonObjects
    \/ m.coords = "null"
    \/ m.coords = "list" /\ Len(m.clist) < 2

\* dict.get(key) and dict.get(key, default) of the extracted members
GetUnid(m) == IF m.unid = "absent" THEN "null" ELSE m.unid
GetMag(m) == IF m.mag = "absent" THEN "null" ELSE m.mag
GetDepth(m) == IF m.depth = "absent" THEN "null" ELSE m.depth
GetTime(m) == IF m.time = "absent" THEN "" ELSE m.time
GetRegion(m) ==
    IF m.regionKind = "absent" THEN [kind |-> "str", text |-> <<>>]
    ELSE [kind |-> m.regionKind, text |-> m.regionText]
GetCoordinates(m) == IF m.coords = "absent" THEN <<"null", "null">> ELSE m.clist
GetLongitude(m) == GetCoordinates(m)[1]
GetLatitude(m) == GetCoordinates(m)[2]

\* None in (unid, longitude, latitude, magnitude) or not event_time
Incomplete(m) ==
    \/ "null" \in {GetUnid(m), GetLongitude(m), GetLatitude(m), GetMag(m)}
    \/ GetTime(m) = ""

\* Lines 52-67 raise: region.replace on None, float() on a text that is no number
BuildRaises(m) ==
    \/ GetRegion(m).kind = "null"
    \/ ~IsNumeric(GetLatitude(m))
    \/ ~IsNumeric(GetLongitude(m))
    \/ ~IsNumeric(GetMag(m))
    \/ GetDepth(m) # "null" /\ ~IsNumeric(GetDepth(m))

\* Lines 54-57: the time in canonical form, or unchanged when it does not parse
NormalizeTime(t) == IF IsoParseable(t) THEN Strftime(HourOf(t)) ELSE t

\* quake_data
QuakeData(m) ==
    [unid |-> GetUnid(m),
     time |-> NormalizeTime(GetTime(m)),
     latitude |-> ToFloat(GetLatitude(m)),
     longitude |-> ToFloat(GetLongitude(m)),
     magnitude |-> ToFloat(GetMag(m)),
     region |-> ReplaceComma(GetRegion(m).text),
     depth |-> IF GetDepth(m) = "null" THEN None ELSE Some(ToFloat(GetDepth(m)))]

NoPayload == <<>>

NoCall == [outcome |-> "none", raised |-> FALSE, rejectLogs |-> 0, insertCalls |-> 0,
           ok |-> FALSE, announced |-> FALSE, unid |-> "null", existed |-> FALSE,
           attempts |-> 0, failure |-> "none"]

\* process_message(raw) on table st: what it did, and the table after.
ProcessMessage(m, st, fault) ==
    IF NotJson(m) THEN
        [call |-> [NoCall EXCEPT !.outcome = "not_json", !.rejectLogs = 1], store |-> st]
    ELSE IF LookupRaises(m) THEN
        [call |-> [NoCall EXCEPT !.outcome = "raised", !.raised = TRUE], store |-> st]
    ELSE IF Incomplete(m) THEN
        [call |-> [NoCall EXCEPT !.outcome = "incomplete", !.rejectLogs = 1], store |-> st]
    ELSE IF BuildRaises(m) THEN
        [call |-> [NoCall EXCEPT !.outcome = "raised", !.raised = TRUE], store |-> st]
    ELSE
        LET data == QuakeData(m)
            res == InsertEarthquake(data, st, fault)
        IN  [call |-> [outcome |-> IF res.ok THEN "written" ELSE "write_failed",
                       raised |-> FALSE, rejectLogs |-> 0, insertCalls |-> 1,
                       ok |-> res.ok, announced |-> res.ok, unid |-> data.unid,
                       existed |-> Conflicts(data, st),
                       attempts |-> res.attempts,
                       failure |-> IF fault # "none" THEN fault
                                   ELSE IF StatementRaises(data) THEN "statement"
                                   ELSE "none"],
             store |-> res.store]

(***************************************************************************)
(* manage.import_csv                                                       *)
(*                                                                         *)
(* csv.DictReader gives every row as a dict with one cell for each column  *)
(* of the file's header; a cell is a text, the region cell a sequence of   *)
(* characters. A column that the header lacks is no key of the dict.       *)
(***************************************************************************)

\* row.get(key): the cell, or None
GetCell(row, key) == IF key \in DOMAIN row THEN row[key] ELSE "null"

\* Python's truth value of a cell: None and "" are false
Falsy(v) == v \in {"null", ""}

\* a or b
Or(a, b) == IF Falsy(a) THEN b ELSE a

\* float(row[lower] or row[upper]) raises: KeyError for a column the header
\* lacks, ValueError for a text that is no number
IndexedFloatRaises(row, lower, upper) ==
    IF lower \notin DOMAIN row THEN TRUE
    ELSE IF ~Falsy(row[lower]) THEN ~IsNumeric(row[lower])
    ELSE IF upper \notin DOMAIN row THEN TRUE
    ELSE ~IsNumeric(row[upper])

IndexedFloat(row, lower, upper) ==
    IF ~Falsy(row[lower]) THEN ToFloat(row[lower]) ELSE ToFloat(row[upper])

\* Lines 32-38: the depth cell of either spelling, or None
DepthRaises(row) ==
    IF ~Falsy(GetCell(row, "depth")) THEN ~IsNumeric(row["depth"])
    ELSE IF ~Falsy(GetCell(row, "DEPTH")) THEN ~IsNumeric(row["DEPTH"])
    ELSE FALSE

DepthOf(row) ==
    IF ~Falsy(GetCell(row, "depth")) THEN Some(ToFloat(row["depth"]))
    ELSE IF ~Falsy(GetCell(row, "DEPTH")) THEN Some(ToFloat(row["DEPTH"]))
    ELSE None

\* Line 39: float(None) raises TypeError, float of a text that is no number
\* (the empty text included) ValueError
MagnitudeRaises(row) ==
    ~IsNumeric(Or(GetCell(row, "magnitude"), GetCell(row, "MAGNITUDE")))

\* Line 40: row.get("region") or row.get("REGION", "")
RegionOf(row) ==
    IF "region" \in DOMAIN row /\ row["region"] # <<>> THEN row["region"]
    ELSE IF "REGION" \in DOMAIN row THEN row["REGION"]
    ELSE <<>>

\* Building the dict quake (lines 27-41) raises
QuakeRaises(row) ==
    \/ IndexedFloatRaises(row, "latitude", "LATITUDE")
    \/ IndexedFloatRaises(row, "longitude", "LONGITUDE")
    \/ DepthRaises(row)
    \/ MagnitudeRaises(row)

\* The dict quake; a time of None is passed on as it is
Quake(row) ==
    LET time == Or(GetCell(row, "time"), GetCell(row, "TIME"))
    IN  [unid |-> Or(GetCell(row, "unid"), GetCell(row, "UNID")),
         time |-> IF time = "null" THEN NoneText ELSE time,
         latitude |-> IndexedFloat(row, "latitude", "LATITUDE"),
         longitude |-> IndexedFloat(row, "longitude", "LONGITUDE"),
         depth |-> DepthOf(row),
         magnitude |-> ToFloat(Or(GetCell(row, "magnitude"), GetCell(row, "MAGNITUDE"))),
         region |-> RegionOf(row)]

\* import_csv(csv_path) on table st, from row i of the file on: the table
\* after, the insert_earthquake calls made, the rows counted, and whether an
\* exception left the function (the rows behind the one that raised are not
\* read). faults[i] is what befalls the write of row i.
RECURSIVE ImportFrom(_, _, _, _, _)
ImportFrom(file, faults, i, st, calls) ==
    IF i > Len(file)
    THEN [store |-> st, calls |-> calls, count |-> Len(calls), raised |-> FALSE]
    ELSE IF QuakeRaises(file[i])
    THEN [store |-> st, calls |-> calls, count |-> Len(calls), raised |-> TRUE]
    ELSE IF Falsy(Quake(file[i]).unid) THEN ImportFrom(file, faults, i + 1, st, calls)
    ELSE LET res == InsertEarthquake(Quake(file[i]), st, faults[i])
         IN  ImportFrom(file, faults, i + 1, res.store,
                        Append(calls, [data |-> Quake(file[i]), fault |-> faults[i],
                                       ok |-> res.ok]))

ImportCsv(file, faults, st) == ImportFrom(file, faults, 1, st, <<>>)

(***************************************************************************)
(* database.EarthquakeQuery: the query builder.  The SQL text is kept as   *)
(* its fragments in textual order; a '?' placeholder is known by the       *)
(* fragment that holds it, and a parameter carries the role the builder    *)
(* method gave it next to its value.                                       *)
(***************************************************************************)
SinceClause == "time > ?"
StartClause == "time >= ?"
EndClause == "time <= ?"
DWithinClause ==
    "ST_DWithin(CAST(geom AS GEOGRAPHY), CAST(ST_Point(?, ?) AS GEOGRAPHY), ?)"
BboxClause == "ST_Intersects(geom, ST_MakeEnvelope(?, ?, ?, ?, 4326))"
GeoJsonClause == "ST_Intersects(geom, ST_GeomFromGeoJSON(?))"
WktClause == "ST_Intersects(geom, ST_GeomFromText(?))"
GeomGuard == "geom IS NOT NULL"
AllFields == "*"
DistanceFields == "*, ST_Distance_Sphere(geom, ST_Point(?, ?)) AS distance_m"
SomeFields == "unid, time"

\* "ST_Distance_Sphere" in self._select_fields
HasDistanceSphere(fields) == fields = DistanceFields

\* The '?' placeholders of a fragment, left to right, each named by what the
\* surrounding SQL makes of the value bound to it
Placeholders(fragment) ==
    CASE fragment = SinceClause -> <<"cutoff">>
      [] fragment = StartClause -> <<"start_iso">>
      [] fragment = EndClause -> <<"end_iso">>
      [] fragment = DWithinClause -> <<"lon", "lat", "radius_m">>
      [] fragment = BboxClause -> <<"min_lon", "min_lat", "max_lon", "max_lat">>
      [] fragment = GeoJsonClause -> <<"geojson">>
      [] fragment = WktClause -> <<"wkt">>
      [] fragment = DistanceFields -> <<"ref_lon", "ref_lat">>
      [] OTHER -> <<>>

Param(role, v) == [role |-> role, v |-> v]

\* _cutoff_iso(hours): the clock reading less the window, formatted
CutoffIso(clock, hours) == Strftime(clock - hours)

\* datetime.min (0001-01-01T00:00:00), in hours since 2024-01-01T00:00:00
DatetimeMin == 0 - 17733240

\* datetime.now() - timedelta(hours=hours) raises OverflowError
CutoffRaises(clock, hours) == clock - hours < DatetimeMin

\* EarthquakeQuery()
NewQuery ==
    [where_clauses |-> <<>>, params |-> <<>>, select_fields |-> AllFields,
     order_by |-> "time DESC", limit |-> None, require_geom |-> FALSE]

Select(qr, fields) == [qr EXCEPT !.select_fields = fields]

Since(qr, hours, clock) ==
    [qr EXCEPT !.where_clauses = Append(@, SinceClause),
               !.params = Append(@, Param("cutoff", CutoffIso(clock, hours)))]

\* start_iso and end_iso are None or Some(text); None and "" are falsy
Truthy(opt) == opt # None /\ opt[1] # ""

TimeRange(qr, start_iso, end_iso) ==
    LET q1 == IF Truthy(start_iso)
              THEN [qr EXCEPT !.where_clauses = Append(@, StartClause),
                              !.params = Append(@, Param("start_iso", start_iso[1]))]
              ELSE qr
    IN  IF Truthy(end_iso)
        THEN [q1 EXCEPT !.where_clauses = Append(@, EndClause),
                        !.params = Append(@, Param("end_iso", end_iso[1]))]
        ELSE q1

WithinRadius(qr, lon, lat, radius_km) ==
    LET radius_m == radius_km * 1000
    IN  [qr EXCEPT !.where_clauses = Append(@, DWithinClause),
                   !.params = @ \o <<Param("lon", lon), Param("lat", lat),
                                     Param("radius_m", radius_m)>>,
                   !.require_geom = TRUE]

InBbox(qr, min_lon, min_lat, max_lon, max_lat) ==
    [qr EXCEPT !.where_clauses = Append(@, BboxClause),
               !.params = @ \o <<Param("min_lon", min_lon), Param("min_lat", min_lat),
                                 Param("max_lon", max_lon), Param("max_lat", max_lat)>>,
               !.require_geom = TRUE]

\* A geometry text is a sequence of characters; strip() drops leading blanks
RECURSIVE Strip(_)
Strip(text) ==
    IF text # <<>> /\ Head(text) = " " THEN Strip(Tail(text)) ELSE text

StartsWithBrace(text) == text # <<>> /\ Head(text) = "{"

Intersects(qr, geom_text) ==
    LET clause == IF StartsWithBrace(Strip(geom_text)) THEN GeoJsonClause
                  ELSE WktClause
        role == IF StartsWithBrace(Strip(geom_text)) THEN "geojson" ELSE "wkt"
    IN  [qr EXCEPT !.where_clauses = Append(@, clause),
                   !.params = Append(@, Param(role, geom_text)),
                   !.require_geom = TRUE]

\* nearest() as it would be if it put its point behind the parameters
NearestAppending(qr, lon, lat, n) ==
    [qr EXCEPT !.select_fields = DistanceFields,
               !.params = @ \o <<Param("ref_lon", lon), Param("ref_lat", lat)>>,
               !.order_by = "distance_m ASC",
               !.limit = Some(n),
               !.require_geom = TRUE]

Nearest(qr, lon, lat, n) ==
    [qr EXCEPT !.select_fields = DistanceFields,
               !.params = <<Param("ref_lon", lon), Param("ref_lat", lat)>> \o @,
               !.order_by = "distance_m ASC",
               !.limit = Some(n),
               !.require_geom = TRUE]

OrderBy(qr, order) == [qr EXCEPT !.order_by = order]

Limit(qr, n) == [qr EXCEPT !.limit = Some(n)]

\* Python slices: a list shorter than the bound gives what there is
SliceTo(s, n) == SubSeq(s, 1, IF Len(s) < n THEN Len(s) ELSE n)
SliceFrom(s, n) == SubSeq(s, n + 1, Len(s))

\* _build_sql() had it one guard for every spatial clause of the WHERE list
BuildSqlGuardPerClause(qr) ==
    LET distance == HasDistanceSphere(qr.select_fields)
        select_params == IF distance THEN SliceTo(qr.params, 2) ELSE <<>>
        where_params == IF distance THEN SliceFrom(qr.params, 2) ELSE qr.params
        spatial == SelectSeq(qr.where_clauses,
                             LAMBDA c : c \in {DWithinClause, BboxClause,
                                                GeoJsonClause, WktClause})
    IN  [select |-> qr.select_fields,
         where |-> [i \in DOMAIN spatial |-> GeomGuard] \o qr.where_clauses,
         order_by |-> qr.order_by,
         limit |-> IF qr.limit # None /\ qr.limit[1] # 0 THEN qr.limit ELSE None,
         params |-> select_params \o where_params]

\* _build_sql(): the text, as select list, WHERE conjuncts, ORDER BY and
\* LIMIT, and the parameter list
BuildSql(qr) ==
    LET distance == HasDistanceSphere(qr.select_fields)
        select_params == IF distance THEN SliceTo(qr.params, 2) ELSE <<>>
        where_params == IF distance THEN SliceFrom(qr.params, 2) ELSE qr.params
        where_clauses == IF qr.require_geom THEN <<GeomGuard>> \o qr.where_clauses
                         ELSE qr.where_clauses
    IN  [select |-> qr.select_fields,
         where |-> where_clauses,
         order_by |-> qr.order_by,
         limit |-> IF qr.limit # None /\ qr.limit[1] # 0 THEN qr.limit ELSE None,
         params |-> select_params \o where_params]

\* The placeholders of the text, left to right
RECURSIVE ClausePlaceholders(_)
ClausePlaceholders(clauses) ==
    IF clauses = <<>> THEN <<>>
    ELSE Placeholders(Head(clauses)) \o ClausePlaceholders(Tail(clauses))

SqlPlaceholders(sql) == Placeholders(sql.select) \o ClausePlaceholders(sql.where)

\* The driver binds a parameter to a placeholder: a time placeholder takes a
\* text castable to TIMESTAMP, a coordinate or distance placeholder a number,
\* a geometry placeholder a geometry text.
TimePlaceholders == {"cutoff", "start_iso", "end_iso"}
GeometryPlaceholders == {"geojson", "wkt"}

\* Geometry texts, as their lexical tokens: one well-formed polygon in each
\* notation, the rectangle from (11, 0) to (30, 30)
GeoJsonBox == <<"{", "Polygon", "11 0, 30 0, 30 30, 11 30, 11 0", "}">>
WktBox == <<"POLYGON", "11 0, 30 0, 30 30, 11 30, 11 0">>
Box == [min_lon |-> 11, min_lat |-> 0, max_lon |-> 30, max_lat |-> 30]

\* ST_GeomFromGeoJSON(text) and ST_GeomFromText(text): the geometry, or None
\* where the function raises on a malformed text
STGeomFromGeoJSON(text) == IF text = GeoJsonBox THEN Some(Box) ELSE None
STGeomFromText(text) == IF text = WktBox THEN Some(Box) ELSE None

Bindable(placeholder, param) ==
    IF placeholder \in TimePlaceholders
    THEN param.role \in TimePlaceholders /\ TimestampCastable(param.v)
    ELSE IF placeholder \in GeometryPlaceholders
         THEN /\ param.role \in GeometryPlaceholders
              /\ placeholder = "geojson" => STGeomFromGeoJSON(param.v) # None
              /\ placeholder = "wkt" => STGeomFromText(param.v) # None
         ELSE param.role \notin TimePlaceholders \cup GeometryPlaceholders

\* conn.execute(sql, params) raises: a parameter count that is not the
\* placeholder count, a value its placeholder cannot take, an ORDER BY on a
\* column the select list does not produce, or a lost connection
ExecuteRaises(sql, fault) ==
    LET holes == SqlPlaceholders(sql)
    IN  \/ fault # "none"
        \/ Len(sql.params) # Len(holes)
        \/ \E i \in 1..Len(holes) : ~Bindable(holes[i], sql.params[i])
        \/ sql.order_by = "distance_m ASC" /\ ~HasDistanceSphere(sql.select)

\* ST_Distance_Sphere(geom, ST_Point(lon, lat)), in metres. The stored
\* events and the reference points of the read specifications lie on one
\* parallel, where the great-circle distance grows with the difference in
\* degrees; the distance is counted along the degrees.
Abs(x) == IF x < 0 THEN 0 - x ELSE x

STDistanceSphere(geom, point) ==
    (Abs(geom[1] - point[1]) + Abs(geom[2] - point[2])) * 111195

\* ST_Intersects(point, rectangle): the boundary belongs to the rectangle
InBox(geom, box) ==
    /\ box.min_lon <= geom[1] /\ geom[1] <= box.max_lon
    /\ box.min_lat <= geom[2] /\ geom[2] <= box.max_lat

\* One WHERE conjunct on one row, with the parameters bound to it; a
\* spatial predicate on a NULL geometry is NULL, which WHERE takes as false
ClauseHolds(row, clause, args) ==
    CASE clause = SinceClause -> row.time > CastTimestamp(args[1].v)
      [] clause = StartClause -> row.time >= CastTimestamp(args[1].v)
      [] clause = EndClause -> row.time <= CastTimestamp(args[1].v)
      [] clause = GeomGuard -> row.geom # None
      [] clause = DWithinClause ->
            /\ row.geom # None
            /\ STDistanceSphere(row.geom, STPoint(args[1].v, args[2].v)) <= args[3].v
      [] clause = BboxClause ->
            /\ row.geom # None
            /\ InBox(row.geom, [min_lon |-> args[1].v, min_lat |-> args[2].v,
                                max_lon |-> args[3].v, max_lat |-> args[4].v])
      [] clause = GeoJsonClause ->
            row.geom # None /\ InBox(row.geom, STGeomFromGeoJSON(args[1].v)[1])
      [] clause = WktClause ->
            row.geom # None /\ InBox(row.geom, STGeomFromText(args[1].v)[1])

RECURSIVE RowPasses(_, _, _)
RowPasses(row, clauses, params) ==
    IF clauses = <<>> THEN TRUE
    ELSE LET n == Len(Placeholders(Head(clauses)))
         IN  /\ ClauseHolds(row, Head(clauses), SubSeq(params, 1, n))
             /\ RowPasses(row, Tail(clauses), SubSeq(params, n + 1, Len(params)))

\* The select list evaluated on one row: '*' gives the row's columns, the
\* nearest projection adds distance_m
Project(row, sql) ==
    IF HasDistanceSphere(sql.select)
    THEN [unid |-> row.unid, time |-> row.time, latitude |-> row.latitude,
          longitude |-> row.longitude, depth |-> row.depth,
          magnitude |-> row.magnitude, region |-> row.region, geom |-> row.geom,
          created_at |-> row.created_at,
          distance_m |-> STDistanceSphere(row.geom,
                                         STPoint(sql.params[1].v, sql.params[2].v))]
    ELSE row

\* ORDER BY: a comes no later than b
OrderedBy(order, a, b) ==
    CASE order = "time DESC" -> a.time >= b.time
      [] order = "time ASC" -> a.time <= b.time
      [] order = "distance_m ASC" -> a.distance_m <= b.distance_m

\* The orders in which the engine may return the rows: rows that compare
\* equal come in either order
Orderings(rows, order) ==
    {s \in [1..Cardinality(rows) -> rows] :
        /\ \A i, j \in DOMAIN s : i # j => s[i] # s[j]
        /\ \A i, j \in DOMAIN s : i < j => OrderedBy(order, s[i], s[j])}

\* df.drop(columns=["geom"]) and to_dict(orient="records")
DropGeom(row) == [column \in DOMAIN row \ {"geom"} |-> row[column]]

\* execute(): the lists it may return
QueryExecute(qr, table, fault) ==
    LET sql == BuildSql(qr)
        where_params == SliceFrom(sql.params, Len(Placeholders(sql.select)))
        passing == {r \in table : RowPasses(r, sql.where, where_params)}
        rows == {Project(r, sql) : r \in passing}
        cut(s) == IF sql.limit = None THEN s ELSE SliceTo(s, sql.limit[1])
    IN  IF ExecuteRaises(sql, fault) THEN {<<>>}
        ELSE {cut([i \in DOMAIN s |-> DropGeom(s[i])]) :
                s \in Orderings(rows, sql.order_by)}

\* get_recent_earthquakes(hours)
GetRecentEarthquakes(hours, clock, table, fault) ==
    QueryExecute(Since(NewQuery, hours, clock), table, fault)

\* query_within_radius(lon, lat, radius_km, hours)
QueryWithinRadius(lon, lat, radius_km, hours, clock, table, fault) ==
    QueryExecute(WithinRadius(Since(NewQuery, hours, clock), lon, lat, radius_km),
                 table, fault)

\* query_bbox(min_lon, min_lat, max_lon, max_lat, hours)
QueryBbox(min_lon, min_lat, max_lon, max_lat, hours, clock, table, fault) ==
    QueryExecute(InBbox(Since(NewQuery, hours, clock), min_lon, min_lat, max_lon, max_lat),
                 table, fault)

\* query_overlay(geom_text, hours)
QueryOverlay(geom_text, hours, clock, table, fault) ==
    QueryExecute(Intersects(Since(NewQuery, hours, clock), geom_text), table, fault)

\* query_nearest(lon, lat, limit, hours)
QueryNearest(lon, lat, n, hours, clock, table, fault) ==
    QueryExecute(Nearest(Since(NewQuery, hours, clock), lon, lat, n), table, fault)

\* get_time_window(start_iso, end_iso, limit)
GetTimeWindow(start_iso, end_iso, n, table, fault) ==
    QueryExecute(Limit(OrderBy(TimeRange(NewQuery, start_iso, end_iso), "time ASC"), n),
                 table, fault)

\* The rows of a set in every order: a statement without ORDER BY
AnyOrder(rows) ==
    {s \in [1..Cardinality(rows) -> rows] :
        \A i, j \in DOMAIN s : i # j => s[i] # s[j]}

\* buffered_events(radius_km, hours): the cutoff is computed inside the try
BufferedEvents(radius_km, hours, clock, table, fault) ==
    LET radius_m == radius_km * 1000
        rows == {r \in table : /\ r.time > CastTimestamp(CutoffIso(clock, hours))
                               /\ r.geom # None}
        buffered(r) ==
            [unid |-> r.unid, time |-> r.time, latitude |-> r.latitude,
             longitude |-> r.longitude, depth |-> r.depth,
             magnitude |-> r.magnitude, region |-> r.region,
             buffer_geojson |-> [center |-> r.geom, radius_m |-> radius_m]]
    IN  IF fault # "none" \/ CutoffRaises(clock, hours) THEN {<<>>}
        ELSE AnyOrder({buffered(r) : r \in rows})

\* cluster_grid(cell_km, hours): step_deg = cell_km / 111.0, for the cell
\* sizes that are whole multiples of 111 km; an average is kept as the pair
\* of the sum and the count
StepDeg(cell_km) == cell_km \div 111

RECURSIVE SumOf(_, _)
SumOf(rows, column) ==
    IF rows = {} THEN 0
    ELSE LET r == CHOOSE x \in rows : TRUE
         IN  r[column] + SumOf(rows \ {r}, column)

\* cluster_grid as it would be without the time filter of its WITH clause
ClusterGridUnwindowed(cell_km, hours, clock, table, fault) ==
    LET step_deg == StepDeg(cell_km)
        rows == {r \in table : r.geom # None}
        bin(r) == <<r.longitude \div step_deg, r.latitude \div step_deg>>
        members(b) == {r \in rows : bin(r) = b}
        cell(b) ==
            [lon_bin |-> b[1], lat_bin |-> b[2],
             count |-> Cardinality(members(b)),
             avg_magnitude |-> <<SumOf(members(b), "magnitude"), Cardinality(members(b))>>,
             min_time |-> CHOOSE t \in {r.time : r \in members(b)} :
                            \A r \in members(b) : t <= r.time,
             max_time |-> CHOOSE t \in {r.time : r \in members(b)} :
                            \A r \in members(b) : t >= r.time,
             center_lon |-> <<SumOf(members(b), "longitude"), Cardinality(members(b))>>,
             center_lat |-> <<SumOf(members(b), "latitude"), Cardinality(members(b))>>]
        cells == {cell(b) : b \in {bin(r) : r \in rows}}
    IN  IF fault # "none" \/ CutoffRaises(clock, hours) THEN {<<>>}
        ELSE {s \in AnyOrder({c \in cells : c.count > 0}) :
                \A i, j \in DOMAIN s : i < j => s[i].count >= s[j].count}

ClusterGrid(cell_km, hours, clock, table, fault) ==
    LET step_deg == StepDeg(cell_km)
        rows == {r \in table : /\ r.time > CastTimestamp(CutoffIso(clock, hours))
                               /\ r.geom # None}
        bin(r) == <<r.longitude \div step_deg, r.latitude \div step_deg>>
        members(b) == {r \in rows : bin(r) = b}
        cell(b) ==
            [lon_bin |-> b[1], lat_bin |-> b[2],
             count |-> Cardinality(members(b)),
             avg_magnitude |-> <<SumOf(members(b), "magnitude"), Cardinality(members(b))>>,
             min_time |-> CHOOSE t \in {r.time : r \in members(b)} :
                            \A r \in members(b) : t <= r.time,
             max_time |-> CHOOSE t \in {r.time : r \in members(b)} :
                            \A r \in members(b) : t >= r.time,
             center_lon |-> <<SumOf(members(b), "longitude"), Cardinality(members(b))>>,
             center_lat |-> <<SumOf(members(b), "latitude"), Cardinality(members(b))>>]
        cells == {cell(b) : b \in {bin(r) : r \in rows}}
    IN  IF fault # "none" \/ CutoffRaises(clock, hours) THEN {<<>>}
        ELSE {s \in AnyOrder({c \in cells : c.count > 0}) :
                \A i, j \in DOMAIN s : i < j => s[i].count >= s[j].count}

\* to_geojson(): the features of the collection it returns. The wrapped
\* statement reads unid .. region and geom from the builder's query, keeps
\* the rows with a geometry, and aggregates them in no stated order.
ToGeoJson(qr, table, fault) ==
    LET sql == BuildSql(qr)
        where_params == SliceFrom(sql.params, Len(Placeholders(sql.select)))
        passing == {r \in table : RowPasses(r, sql.where, where_params)}
        rows == {Project(r, sql) : r \in passing}
        cut(s) == IF sql.limit = None THEN s ELSE SliceTo(s, sql.limit[1])
        feature(r) ==
            [type |-> "Feature", geometry |-> r.geom,
             properties |-> [unid |-> r.unid, time |-> r.time, latitude |-> r.latitude,
                             longitude |-> r.longitude, depth |-> r.depth,
                             magnitude |-> r.magnitude, region |-> r.region]]
        kept(s) == {feature(s[i]) : i \in {i \in DOMAIN s : s[i].geom # None}}
    IN  IF ExecuteRaises(sql, fault) \/ sql.select = SomeFields THEN {<<>>}
        ELSE UNION {AnyOrder(kept(cut(s))) : s \in Orderings(rows, sql.order_by)}

\* service.overlay(geom_text, hours)
ServiceOverlay(geom_text, hours, clock, table, fault) ==
    ToGeoJson(Intersects(Since(NewQuery, hours, clock), geom_text), table, fault)

\* service.timeline(start_iso, end_iso, limit)
ServiceTimeline(start_iso, end_iso, n, table, fault) ==
    ToGeoJson(Limit(OrderBy(TimeRange(NewQuery, start_iso, end_iso), "time ASC"), n),
              table, fault)

\* api._to_feature_collection(rows, geom_field): a row whose geom_field is
\* filled gives the geometry parsed from it, any other row the point of its
\* longitude and latitude, and is left out when it holds no longitude or no
\* latitude (the rows of the model always hold both when they have the
\* columns); the properties are the row's items but "geom" and geom_field.
ToFeatureCollection(rows, geom_field) ==
    LET filled(row) == /\ geom_field # None
                       /\ geom_field[1] \in DOMAIN row
                       /\ row[geom_field[1]] # None
        kept(row) == filled(row) \/ {"longitude", "latitude"} \subseteq DOMAIN row
        geometry(row) ==
            IF filled(row) THEN row[geom_field[1]]
            ELSE [type |-> "Point", coordinates |-> <<row.longitude, row.latitude>>]
        excluded == {"geom"} \cup {geom_field[i] : i \in DOMAIN geom_field}
        feature(row) ==
            [type |-> "Feature", geometry |-> geometry(row),
             properties |-> [k \in DOMAIN row \ excluded |-> row[k]]]
        through == SelectSeq(rows, kept)
    IN  [i \in DOMAIN through |-> feature(through[i])]

\* service.buffered(radius_km, hours): the features made of the rows of
\* buffered_events that have a buffer_geojson
ServiceBuffered(rows) ==
    LET through == SelectSeq(rows, LAMBDA row : row.buffer_geojson # None)
        feature(row) ==
            [type |-> "Feature", geometry |-> row.buffer_geojson,
             properties |-> [k \in DOMAIN row \ {"buffer_geojson"} |-> row[k]]]
    IN  [i \in DOMAIN through |-> feature(through[i])]

\* What the caller of a function gets: a returned list, or the exception
\* that left the function
Returning(results) == {[raised |-> FALSE, rows |-> r] : r \in results}
Raising == {[raised |-> TRUE, rows |-> <<>>]}

(***************************************************************************)
(* The subsystems at rest: what a specification of another subsystem       *)
(* starts from and leaves unchanged.                                       *)
(***************************************************************************)

SessionIdle ==
    /\ entry = "main"
    /\ lc = "spawned"
    /\ currentWs = "none"
    /\ loop = "running"
    /\ shutdownRequested = FALSE
    /\ cleanupPending = FALSE
    /\ exited = FALSE
    /\ sleepLeft = 0
    /\ failures = 0

\* How many threads call into database.py
NumThreads == 2

Threads == 1..NumThreads

\* A SingleConnectionPool that does not exist (yet, or any more); a pool is
\* named after the thread that constructs it.
NoPool == [exists |-> FALSE, owner |-> 0, conn |-> "none"]

PoolIdle ==
    /\ connectionPool = 0
    /\ pools = [p \in Threads |-> NoPool]
    /\ tpc = [t \in Threads |-> "idle"]
    /\ tpool = [t \in Threads |-> 0]

NoAnswer == [asked |-> FALSE, hours |-> 0, failed |-> FALSE, rows |-> <<>>]

QueryIdle ==
    /\ query = NewQuery
    /\ ncalls = 0
    /\ called = {}
    /\ now = 0
    /\ answer = NoAnswer

IngestIdle ==
    /\ store = {}
    /\ store0 = {}
    /\ newEq = [u \in Unids |-> 0]
    /\ last = NoCall
    /\ inbox = NoPayload
    /\ hist = <<>>

(***************************************************************************)
(* Spec: the write path over a stream of feed messages.                    *)
(***************************************************************************)

\* How many "New EQ" lines per unid the model follows
MaxAnnounce == 2

\* The payloads the stream delivers: well-formed envelopes whose members are
\* present, null or unparseable, and the two payloads that are no JSON object.
StreamPayloads ==
    {[Payload0 EXCEPT !.top = t, !.data = "absent", !.props = "absent",
                      !.geometry = "absent"] : t \in {"notjson", "nonobj"}}
    \cup {[Payload0 EXCEPT !.unid = u, !.mag = m, !.time = t, !.regionKind = r.kind,
                           !.regionText = r.text, !.coords = "list", !.clist = l] :
            u \in {"null"} \cup Unids, m \in {"4", "5"},
            t \in {"", GarbageTime, "2024-01-01T00:00:00Z"},
            r \in {[kind |-> "null", text |-> <<>>],
                   [kind |-> "str", text |-> <<"A", ",", "B">>]},
            l \in {<<"10", "20">>, <<"10">>}}

InitIngest ==
    /\ store = {}
    /\ store0 = {}
    /\ newEq = [u \in Unids |-> 0]
    /\ last = NoCall
    /\ inbox = NoPayload
    /\ hist = <<>>
    /\ SessionIdle
    /\ PoolIdle
    /\ QueryIdle

\* listen hands one message to process_message (listener.py line 88).
Receive(m, fault) ==
    LET r == ProcessMessage(m, store, fault) IN
    /\ r.call.announced => newEq[r.call.unid] < MaxAnnounce
    /\ store' = r.store
    /\ last' = r.call
    /\ newEq' = IF r.call.announced
                THEN [newEq EXCEPT ![r.call.unid] = @ + 1]
                ELSE newEq
    /\ UNCHANGED <<inbox, hist, store0>>
    /\ OutsideIngest

\* The process is restarted: the table and the log stay, and the module keeps
\* no identity set of its own to rebuild.
Restart ==
    /\ last # NoCall
    /\ last' = NoCall
    /\ UNCHANGED <<store, newEq, inbox, hist, store0>>
    /\ OutsideIngest

NextIngest ==
    \/ \E m \in StreamPayloads, fault \in Faults : Receive(m, fault)
    \/ Restart

Spec == InitIngest /\ [][NextIngest]_vars

(***************************************************************************)
(* SpecNormalize: process_message applied once to an arbitrary payload.    *)
(***************************************************************************)

SampleRow ==
    [unid |-> "u1", time |-> 1, latitude |-> 20, longitude |-> 10, depth |-> None,
     magnitude |-> 5, region |-> <<>>, geom |-> STPoint(10, 20),
     created_at |-> CurrentTimestamp]

InitStores == {{}, {SampleRow}}

InitNormalize ==
    /\ store \in InitStores
    /\ store0 = store
    /\ newEq = [u \in Unids |-> 0]
    /\ last = NoCall
    /\ inbox \in {<<m>> : m \in Payloads}
    /\ hist = <<>>
    /\ SessionIdle
    /\ PoolIdle
    /\ QueryIdle

Dispatch(fault) ==
    /\ inbox # NoPayload
    /\ last = NoCall
    /\ LET r == ProcessMessage(inbox[1], store, fault) IN
        /\ store' = r.store
        /\ last' = r.call
        /\ newEq' = IF r.call.announced
                    THEN [newEq EXCEPT ![r.call.unid] = @ + 1]
                    ELSE newEq
    /\ UNCHANGED <<inbox, hist, store0>>
    /\ OutsideIngest

NextNormalize == \E fault \in Faults : Dispatch(fault)

SpecNormalize == InitNormalize /\ [][NextNormalize]_vars

(***************************************************************************)
(* SpecInsert: insert_earthquake called a few times on any table.          *)
(***************************************************************************)

\* How many insert_earthquake calls one behaviour makes
MaxCalls == 2

InsertData ==
    {[unid |-> u, time |-> t, latitude |-> 20, longitude |-> 10, depth |-> None,
      magnitude |-> mg, region |-> <<>>] :
        u \in Unids,
        t \in {"2024-01-01T00:00:00.000000Z", GarbageTime, NoneText},
        mg \in {4, 5}}

InitInsert ==
    /\ store \in InitStores
    /\ store0 = store
    /\ newEq = [u \in Unids |-> 0]
    /\ last = NoCall
    /\ inbox = NoPayload
    /\ hist = <<>>
    /\ SessionIdle
    /\ PoolIdle
    /\ QueryIdle

InsertCall(data, fault) ==
    /\ Len(hist) < MaxCalls
    /\ LET r == InsertEarthquake(data, store, fault) IN
        /\ store' = r.store
        /\ hist' = Append(hist, [data |-> data, fault |-> fault, ok |-> r.ok])
    /\ UNCHANGED <<newEq, last, inbox, store0>>
    /\ OutsideIngest

NextInsert == \E data \in InsertData, fault \in Faults : InsertCall(data, fault)

SpecInsert == InitInsert /\ [][NextInsert]_vars

(***************************************************************************)
(* SpecSession: the ingestion session.                                     *)
(*                                                                         *)
(* launch_client runs as a coroutine on the IOLoop: it stands at one of    *)
(* its yields (websocket_connect: "connecting", read_message in listen:    *)
(* "listening", gen.sleep: "sleeping") and the loop resumes it. The loop   *)
(* also runs the restart timer and, in main.py, the queued cleanup. After  *)
(* stop() work that was already scheduled may still run until start()      *)
(* returns. launch_client asks IOLoop.current().is_running(): Tornado's    *)
(* IOLoop defines no such method (tornado 6.x has is_running only on       *)
(* PeriodicCallback), so the call raises AttributeError; the answers of a  *)
(* loop class that does provide it are kept beside that outcome, and       *)
(* between stop() and the return of start() such a loop may answer either  *)
(* way.                                                                    *)
(***************************************************************************)

RECONNECT_DELAY == 5

\* How many consecutive failed handshakes the model follows
MaxFailures == 2

\* The loop still runs callbacks
LoopAlive == loop \in {"running", "stopping"}

\* What IOLoop.current().is_running() may do: raise AttributeError, or answer
IsRunningAnswers ==
    {"raises"} \cup (IF loop = "running" THEN {"true"} ELSE {"true", "false"})

InitSession ==
    /\ IngestIdle
    /\ PoolIdle
    /\ QueryIdle
    /\ entry \in {"main", "listener"}
    /\ lc = "spawned"
    /\ currentWs = "none"
    /\ loop = "running"
    /\ shutdownRequested = FALSE
    /\ cleanupPending = FALSE
    /\ exited = FALSE
    /\ sleepLeft = 0
    /\ failures = 0

\* launch_client lines 112-120, after the try statement: the finally clause,
\* the is_running test, and the sleep. The break and the exception that
\* is_running raises both end the coroutine.
AfterTry(running) ==
    /\ currentWs' = "none"
    /\ IF running = "true"
       THEN lc' = "sleeping" /\ sleepLeft' = RECONNECT_DELAY
       ELSE lc' = "done" /\ sleepLeft' = 0

\* The loop runs the spawned launch_client up to websocket_connect.
StartClient ==
    /\ LoopAlive /\ lc = "spawned"
    /\ lc' = "connecting"
    /\ UNCHANGED <<entry, currentWs, loop, shutdownRequested, cleanupPending,
                   exited, sleepLeft, failures>>
    /\ OutsideSession

\* websocket_connect succeeds: lines 101-105, up to the first read_message.
ConnectOk ==
    /\ LoopAlive /\ lc = "connecting"
    /\ currentWs' = "open"
    /\ lc' = "listening"
    /\ failures' = 0
    /\ UNCHANGED <<entry, loop, shutdownRequested, cleanupPending, exited, sleepLeft>>
    /\ OutsideSession

\* websocket_connect raises e: lines 106-120. closedInText: "closed" occurs in
\* str(e).lower(), and then is_running is not asked. Otherwise line 108 asks
\* it inside the except clause: an exception there leaves the coroutine
\* through the finally clause, as the break does.
ConnectFail(closedInText, running) ==
    /\ LoopAlive /\ lc = "connecting"
    /\ failures < MaxFailures
    /\ failures' = failures + 1
    /\ IF closedInText \/ running # "true"
       THEN currentWs' = "none" /\ lc' = "done" /\ sleepLeft' = 0
       ELSE AfterTry(running)
    /\ UNCHANGED <<entry, loop, shutdownRequested, cleanupPending, exited>>
    /\ OutsideSession

\* listen reads a message and process_message returns: the loop goes on.
ReadMessage ==
    /\ LoopAlive /\ lc = "listening" /\ currentWs = "open"
    /\ UNCHANGED sessionVars
    /\ OutsideSession

\* listen ends: read_message returned None (the server or close() closed the
\* connection), read_message raised, or process_message raised; listen's
\* except clause swallows the exception. Then lines 112-120.
ListenEnds(how, running) ==
    /\ LoopAlive /\ lc = "listening"
    /\ currentWs = "closed" => how = "eof"
    /\ AfterTry(running)
    /\ UNCHANGED <<entry, loop, shutdownRequested, cleanupPending, exited, failures>>
    /\ OutsideSession

\* One second of the reconnect delay passes. The loop runs what is ready to
\* run (the queued cleanup, its own exit) before it waits again.
Tick ==
    /\ lc = "sleeping" /\ sleepLeft > 0
    /\ ~cleanupPending /\ loop # "stopping"
    /\ sleepLeft' = sleepLeft - 1
    /\ UNCHANGED <<entry, lc, currentWs, loop, shutdownRequested, cleanupPending,
                   exited, failures>>
    /\ OutsideSession

\* gen.sleep is over: the while loop of launch_client starts its next round.
Wake ==
    /\ LoopAlive /\ lc = "sleeping" /\ sleepLeft = 0
    /\ lc' = "connecting"
    /\ UNCHANGED <<entry, currentWs, loop, shutdownRequested, cleanupPending,
                   exited, sleepLeft, failures>>
    /\ OutsideSession

\* connection.close()
Closed(ws) == IF ws = "none" THEN "none" ELSE "closed"

\* The PeriodicCallback fires restart_connection. Neither main.py (line 39) nor
\* start_listener_loop (lines 138-139) ever calls stop() on it: it fires as
\* long as the loop runs callbacks.
RestartConnection ==
    /\ LoopAlive
    /\ currentWs' = Closed(currentWs)
    /\ UNCHANGED <<entry, lc, loop, shutdownRequested, cleanupPending, exited,
                   sleepLeft, failures>>
    /\ OutsideSession

\* SIGINT or SIGTERM. main.py queues cleanup on the loop; listener.py closes
\* the connection and stops the loop in the handler itself.
Signal ==
    /\ ~shutdownRequested /\ loop = "running"
    /\ shutdownRequested' = TRUE
    /\ IF entry = "main"
       THEN cleanupPending' = TRUE /\ UNCHANGED <<currentWs, loop>>
       ELSE /\ currentWs' = Closed(currentWs)
            /\ loop' = "stopping"
            /\ UNCHANGED cleanupPending
    /\ UNCHANGED <<entry, lc, exited, sleepLeft, failures>>
    /\ OutsideSession

\* main.py: the loop runs cleanup.
Cleanup ==
    /\ LoopAlive /\ cleanupPending
    /\ cleanupPending' = FALSE
    /\ currentWs' = Closed(currentWs)
    /\ loop' = "stopping"
    /\ UNCHANGED <<entry, lc, shutdownRequested, exited, sleepLeft, failures>>
    /\ OutsideSession

\* loop.start() returns; the finally block closes the connection and the
\* process ends.
LoopExit ==
    /\ loop = "stopping"
    /\ loop' = "stopped"
    /\ currentWs' = Closed(currentWs)
    /\ exited' = TRUE
    /\ UNCHANGED <<entry, lc, shutdownRequested, cleanupPending, sleepLeft, failures>>
    /\ OutsideSession

NextSession ==
    \/ StartClient
    \/ ConnectOk
    \/ \E closedInText \in BOOLEAN, running \in IsRunningAnswers :
            ConnectFail(closedInText, running)
    \/ ReadMessage
    \/ \E how \in {"eof", "read_error", "handler_raised"}, running \in IsRunningAnswers :
            ListenEnds(how, running)
    \/ Tick
    \/ Wake
    \/ RestartConnection
    \/ Signal
    \/ Cleanup
    \/ LoopExit

SpecSession == InitSession /\ [][NextSession]_vars

(***************************************************************************)
(* SpecPool: threads in _connection_scope.                                 *)
(*                                                                         *)
(* Every insert and every query goes through _connection_scope. A thread   *)
(* can be switched out between any two of its steps: the test of line 65,  *)
(* the construction and assignment of line 66, the read of line 67, the    *)
(* lock of line 48, _ensure_connection, the statement, and the release.    *)
(***************************************************************************)

InitPool ==
    /\ IngestIdle
    /\ SessionIdle
    /\ PoolIdle
    /\ QueryIdle

\* A request or a feed message makes thread t call insert_earthquake or a query.
Begin(t) ==
    /\ tpc[t] = "idle"
    /\ tpc' = [tpc EXCEPT ![t] = "test"]
    /\ UNCHANGED <<connectionPool, pools, tpool>>
    /\ OutsidePool

\* Line 65: if _connection_pool is None
TestPool(t) ==
    /\ tpc[t] = "test"
    /\ tpc' = [tpc EXCEPT ![t] = IF connectionPool = 0 THEN "create" ELSE "read"]
    /\ UNCHANGED <<connectionPool, pools, tpool>>
    /\ OutsidePool

\* A pool nothing refers to any more is collected, and its connection with it:
\* pool p, once neither the global gp nor a local variable of a thread other
\* than t names it.
Collected(ps, p, gp, t) ==
    IF p # 0 /\ p # gp /\ \A o \in Threads \ {t} : tpool[o] # p
    THEN [ps EXCEPT ![p] = NoPool]
    ELSE ps

\* Line 66: _connection_pool = SingleConnectionPool()
CreatePool(t) ==
    /\ tpc[t] = "create"
    /\ pools' = Collected([pools EXCEPT ![t] = [exists |-> TRUE, owner |-> 0,
                                                conn |-> "none"]],
                          connectionPool, t, 0)
    /\ connectionPool' = t
    /\ tpc' = [tpc EXCEPT ![t] = "read"]
    /\ UNCHANGED tpool
    /\ OutsidePool

\* Line 67: pool = _connection_pool
ReadPool(t) ==
    /\ tpc[t] = "read"
    /\ tpool' = [tpool EXCEPT ![t] = connectionPool]
    /\ tpc' = [tpc EXCEPT ![t] = "acquire"]
    /\ UNCHANGED <<connectionPool, pools>>
    /\ OutsidePool

\* Line 48: with self._lock, once the lock is free
Acquire(t) ==
    /\ tpc[t] = "acquire"
    /\ pools[tpool[t]].owner = 0
    /\ pools' = [pools EXCEPT ![tpool[t]].owner = t]
    /\ tpc' = [tpc EXCEPT ![t] = "ensure"]
    /\ UNCHANGED <<connectionPool, tpool>>
    /\ OutsidePool

\* The with statement as it would be if leaving it kept the lock
StillHeld(t) == pools

\* The with statement is left: the lock is released and the local variable
\* pool goes away.
Released(t) ==
    Collected([pools EXCEPT ![tpool[t]].owner = 0], tpool[t], connectionPool, t)

\* Lines 49-51: _ensure_connection and load_extensions; either may raise, and
\* the with statement then releases the lock.
Ensure(t, ok) ==
    /\ tpc[t] = "ensure"
    /\ IF ok
       THEN /\ pools' = [pools EXCEPT ![tpool[t]].conn = "open"]
            /\ tpc' = [tpc EXCEPT ![t] = "execute"]
            /\ UNCHANGED tpool
       ELSE /\ pools' = Released(t)
            /\ tpc' = [tpc EXCEPT ![t] = "idle"]
            /\ tpool' = [tpool EXCEPT ![t] = 0]
    /\ UNCHANGED connectionPool
    /\ OutsidePool

\* The statement runs on the connection (conn.execute), and returns or raises.
Execute(t) ==
    /\ tpc[t] = "execute"
    /\ tpc' = [tpc EXCEPT ![t] = "release"]
    /\ UNCHANGED <<connectionPool, pools, tpool>>
    /\ OutsidePool

\* The with statement ends.
Release(t) ==
    /\ tpc[t] = "release"
    /\ pools' = Released(t)
    /\ tpc' = [tpc EXCEPT ![t] = "idle"]
    /\ tpool' = [tpool EXCEPT ![t] = 0]
    /\ UNCHANGED connectionPool
    /\ OutsidePool

\* close() as it would be without its with self._lock
ClosePoolUnlocked ==
    /\ connectionPool # 0
    /\ pools' = [pools EXCEPT ![connectionPool].conn = "none"]
    /\ UNCHANGED <<connectionPool, tpc, tpool>>
    /\ OutsidePool

\* main.py cleanup: _connection_pool.close(), which takes the pool's lock.
ClosePool ==
    /\ connectionPool # 0
    /\ pools[connectionPool].owner = 0
    /\ pools' = [pools EXCEPT ![connectionPool].conn = "none"]
    /\ UNCHANGED <<connectionPool, tpc, tpool>>
    /\ OutsidePool

NextPool ==
    \/ \E t \in Threads : Begin(t)
    \/ \E t \in Threads : TestPool(t)
    \/ \E t \in Threads : CreatePool(t)
    \/ \E t \in Threads : ReadPool(t)
    \/ \E t \in Threads : Acquire(t)
    \/ \E t \in Threads, ok \in BOOLEAN : Ensure(t, ok)
    \/ \E t \in Threads : Execute(t)
    \/ \E t \in Threads : Release(t)
    \/ ClosePool

SpecPool == InitPool /\ [][NextPool]_vars

\* A thread inside _connection_scope goes on running: each of its steps is
\* taken once it can be, the statement it runs returns or raises, and a thread
\* blocked on the lock gets it at one of the times the lock is free. Requests
\* and the shutdown come or do not come.
PoolFairness ==
    \A t \in Threads :
        /\ WF_vars(TestPool(t))
        /\ WF_vars(CreatePool(t))
        /\ WF_vars(ReadPool(t))
        /\ SF_vars(Acquire(t))
        /\ WF_vars(\E ok \in BOOLEAN : Ensure(t, ok))
        /\ WF_vars(Execute(t))
        /\ WF_vars(Release(t))

SpecPoolFair == SpecPool /\ PoolFairness

(***************************************************************************)
(* SpecQuery: a caller drives one EarthquakeQuery through builder calls.   *)
(***************************************************************************)
MaxBuilderCalls == 3
MaxHours == 2
WindowHours == 0..MaxHours
Clocks == MaxHours..(Len(CanonicalTable) - 1)
TimeArgs == {None, Some(""), Some(CanonicalTable[2])}
GeomTexts == { <<" ", "{", "}">>, <<"P", "O", "I", "N", "T">> }
LimitArgs == {0, 2}

InitQuery ==
    /\ IngestIdle
    /\ SessionIdle
    /\ PoolIdle
    /\ query = NewQuery
    /\ ncalls = 0
    /\ called = {}
    /\ now = MaxHours
    /\ answer = NoAnswer

\* Every builder method mutates the object and returns it
Returned(method) ==
    /\ ncalls' = ncalls + 1
    /\ called' = called \cup {method}
    /\ UNCHANGED <<now, answer>>
    /\ OutsideQuery

DoSelect ==
    /\ ncalls < MaxBuilderCalls
    /\ query' = Select(query, SomeFields)
    /\ Returned("select")

DoSince ==
    /\ ncalls < MaxBuilderCalls
    /\ \E hours \in WindowHours : query' = Since(query, hours, now)
    /\ Returned("since")

DoTimeRange ==
    /\ ncalls < MaxBuilderCalls
    /\ \E start_iso \in TimeArgs, end_iso \in {None, Some(CanonicalTable[3])} :
            query' = TimeRange(query, start_iso, end_iso)
    /\ Returned("time_range")

DoWithinRadius ==
    /\ ncalls < MaxBuilderCalls
    /\ query' = WithinRadius(query, 10, 20, 1)
    /\ Returned("within_radius")

DoInBbox ==
    /\ ncalls < MaxBuilderCalls
    /\ query' = InBbox(query, 0, 0, 30, 30)
    /\ Returned("in_bbox")

DoIntersects ==
    /\ ncalls < MaxBuilderCalls
    /\ \E geom_text \in GeomTexts : query' = Intersects(query, geom_text)
    /\ Returned("intersects")

DoNearest ==
    /\ ncalls < MaxBuilderCalls
    /\ \E n \in LimitArgs : query' = Nearest(query, 11, 21, n)
    /\ Returned("nearest")

DoOrderBy ==
    /\ ncalls < MaxBuilderCalls
    /\ query' = OrderBy(query, "time ASC")
    /\ Returned("order_by")

DoLimit ==
    /\ ncalls < MaxBuilderCalls
    /\ \E n \in LimitArgs : query' = Limit(query, n)
    /\ Returned("limit")

NextQuery ==
    \/ DoSelect
    \/ DoSince
    \/ DoTimeRange
    \/ DoWithinRadius
    \/ DoInBbox
    \/ DoIntersects
    \/ DoNearest
    \/ DoOrderBy
    \/ DoLimit

SpecQuery == InitQuery /\ [][NextQuery]_vars

(***************************************************************************)
(* SpecNearest: a caller builds a query of some filter calls and one call  *)
(* of nearest, placed anywhere among them, and asks for its SQL.           *)
(***************************************************************************)

\* How many filter calls a chain has
MaxFilters == 2

\* The filter calls of a chain, each with the arguments it is made with
FilterCalls ==
    {"since(1)", "time_range(start)", "time_range(end)", "within_radius",
     "in_bbox", "intersects(geojson)", "intersects(wkt)"}

FilterChains == UNION {[1..k -> FilterCalls] : k \in 0..MaxFilters}

\* The builder method of a filter call
MethodOf(c) ==
    CASE c = "since(1)" -> "since"
      [] c \in {"time_range(start)", "time_range(end)"} -> "time_range"
      [] c \in {"intersects(geojson)", "intersects(wkt)"} -> "intersects"
      [] OTHER -> c

\* One filter call on the builder
ApplyFilter(qr, c, clock) ==
    CASE c = "since(1)" -> Since(qr, 1, clock)
      [] c = "time_range(start)" -> TimeRange(qr, Some(CanonicalTable[2]), None)
      [] c = "time_range(end)" -> TimeRange(qr, None, Some(CanonicalTable[3]))
      [] c = "within_radius" -> WithinRadius(qr, 10, 20, 1)
      [] c = "in_bbox" -> InBbox(qr, 0, 0, 30, 30)
      [] c = "intersects(geojson)" -> Intersects(qr, GeoJsonBox)
      [] c = "intersects(wkt)" -> Intersects(qr, WktBox)

\* The calls of a chain, left to right
RECURSIVE ApplyFilters(_, _, _)
ApplyFilters(qr, calls, clock) ==
    IF calls = <<>> THEN qr
    ELSE ApplyFilters(ApplyFilter(qr, Head(calls), clock), Tail(calls), clock)

\* EarthquakeQuery() with nearest(lon, lat, n) called after the first pos
\* filter calls of the chain and before the others
WithNearest(calls, pos, lon, lat, n, clock) ==
    ApplyFilters(Nearest(ApplyFilters(NewQuery, SubSeq(calls, 1, pos), clock), lon, lat, n),
                 SubSeq(calls, pos + 1, Len(calls)), clock)

InitNearest ==
    /\ IngestIdle
    /\ SessionIdle
    /\ PoolIdle
    /\ query = NewQuery
    /\ ncalls = 0
    /\ called = {}
    /\ now = MaxHours
    /\ answer = NoAnswer

\* A new builder, the chain with nearest at pos, and _build_sql(); one
\* builder for each behaviour
BuildNearest(calls, pos, n) ==
    /\ ~answer.asked
    /\ pos \in 0..Len(calls)
    /\ query' = WithNearest(calls, pos, 11, 21, n, now)
    /\ ncalls' = Len(calls) + 1
    /\ called' = {MethodOf(calls[i]) : i \in DOMAIN calls} \cup {"nearest"}
    /\ answer' = [asked |-> TRUE, op |-> "build_sql",
                  args |-> [calls |-> calls, pos |-> pos, lon |-> 11, lat |-> 21,
                            limit |-> n],
                  hours |-> 0, failed |-> FALSE, raised |-> FALSE, rows |-> <<>>,
                  sql |-> BuildSql(query')]
    /\ UNCHANGED now
    /\ OutsideQuery

NextNearest ==
    \E calls \in FilterChains, pos \in 0..MaxFilters, n \in LimitArgs :
        BuildNearest(calls, pos, n)

SpecNearest == InitNearest /\ [][NextNearest]_vars

(***************************************************************************)
(* SpecRecent: get_recent_earthquakes over a table of stored events.       *)
(***************************************************************************)
TableRow(u, h) ==
    RowOf([unid |-> u, time |-> Strftime(h), latitude |-> 20, longitude |-> 10,
           depth |-> None, magnitude |-> 5, region |-> <<>>])

\* unid is the primary key
RecentTables ==
    {t \in SUBSET {TableRow(u, h) : u \in Unids, h \in Hours} :
        \A a, b \in t : a.unid = b.unid => a = b}

InitRecent ==
    /\ store \in RecentTables
    /\ store0 = store
    /\ newEq = [u \in Unids |-> 0]
    /\ last = NoCall
    /\ inbox = NoPayload
    /\ hist = <<>>
    /\ SessionIdle
    /\ PoolIdle
    /\ query = NewQuery
    /\ ncalls = 0
    /\ called = {}
    /\ now \in Clocks
    /\ answer = NoAnswer

Recent(hours, fault) ==
    \E rows \in GetRecentEarthquakes(hours, now, store, fault) :
        /\ answer' = [asked |-> TRUE, hours |-> hours, failed |-> fault # "none",
                      rows |-> rows]
        /\ UNCHANGED <<query, ncalls, called, now>>
        /\ OutsideQuery

NextRecent == \E hours \in WindowHours, fault \in Faults : Recent(hours, fault)

SpecRecent == InitRecent /\ [][NextRecent]_vars

(***************************************************************************)
(* SpecRead: the query functions of database.py over a table of stored     *)
(* events on the parallel of latitude 20.                                  *)
(***************************************************************************)
ReadLatitude == 20
LongitudeOf(u) == IF u = "u1" THEN 10 ELSE 12
ReferenceLongitudes == {10, 13}
ReadLimits == {0, 1, 2}
ReadClocks == {MaxHours}
OutOfRangeHours == 20000000
ReadHours == WindowHours \cup {OutOfRangeHours}
RadiusArgs == {1, 250}
CellArgs == {111, 555}
ReadGeomTexts == {GeoJsonBox, WktBox} \cup GeomTexts

ReadRow(u, h) ==
    RowOf([unid |-> u, time |-> Strftime(h), latitude |-> ReadLatitude,
           longitude |-> LongitudeOf(u), depth |-> None, magnitude |-> 5,
           region |-> <<>>])

ReadTables == SUBSET {ReadRow(u, h) : u \in Unids, h \in {0, MaxHours}}

InitRead ==
    /\ store \in {t \in ReadTables : \A a, b \in t : a.unid = b.unid => a = b}
    /\ store0 = store
    /\ newEq = [u \in Unids |-> 0]
    /\ last = NoCall
    /\ inbox = NoPayload
    /\ hist = <<>>
    /\ SessionIdle
    /\ PoolIdle
    /\ query = NewQuery
    /\ ncalls = 0
    /\ called = {}
    /\ now \in ReadClocks
    /\ answer = NoAnswer

\* What a read hands back to its caller, with the call it answers
Answer(op, args, fault, out) ==
    [asked |-> TRUE, op |-> op, args |-> args, hours |-> 0,
     failed |-> fault # "none", raised |-> out.raised, rows |-> out.rows]

\* A read changes nothing but what its caller holds
Unwritten ==
    /\ UNCHANGED <<query, ncalls, called, now>>
    /\ OutsideQuery

ReadRecent(hours, fault) ==
    \E out \in IF CutoffRaises(now, hours) THEN Raising
               ELSE Returning(GetRecentEarthquakes(hours, now, store, fault)) :
        /\ answer' = Answer("recent", [hours |-> hours], fault, out)
        /\ Unwritten

ReadWithinRadius(lon, radius_km, hours, fault) ==
    \E out \in IF CutoffRaises(now, hours) THEN Raising
               ELSE Returning(QueryWithinRadius(lon, ReadLatitude, radius_km, hours,
                                                now, store, fault)) :
        /\ answer' = Answer("within_radius", [lon |-> lon, lat |-> ReadLatitude,
                                   radius_km |-> radius_km, hours |-> hours], fault, out)
        /\ Unwritten

ReadBbox(hours, fault) ==
    \E out \in IF CutoffRaises(now, hours) THEN Raising
               ELSE Returning(QueryBbox(0, 0, 11, 30, hours, now, store, fault)) :
        /\ answer' = Answer("in_bbox", [box |-> <<0, 0, 11, 30>>, hours |-> hours], fault, out)
        /\ Unwritten

ReadOverlay(geom_text, hours, fault) ==
    \E out \in IF CutoffRaises(now, hours) THEN Raising
               ELSE Returning(QueryOverlay(geom_text, hours, now, store, fault)) :
        /\ answer' = Answer("intersects", [geom_text |-> geom_text, hours |-> hours], fault, out)
        /\ Unwritten

ReadNearest(lon, n, hours, fault) ==
    \E out \in IF CutoffRaises(now, hours) THEN Raising
               ELSE Returning(QueryNearest(lon, ReadLatitude, n, hours, now, store, fault)) :
        /\ answer' = Answer("nearest", [lon |-> lon, lat |-> ReadLatitude, limit |-> n,
                             hours |-> hours], fault, out)
        /\ Unwritten

ReadTimeWindow(start_iso, end_iso, n, fault) ==
    \E out \in Returning(GetTimeWindow(start_iso, end_iso, n, store, fault)) :
        /\ answer' = Answer("time_window", [start_iso |-> start_iso, end_iso |-> end_iso,
                                 limit |-> n], fault, out)
        /\ Unwritten

ReadBuffered(radius_km, hours, fault) ==
    \E out \in Returning(BufferedEvents(radius_km, hours, now, store, fault)) :
        /\ answer' = Answer("buffered", [radius_km |-> radius_km, hours |-> hours], fault, out)
        /\ Unwritten

ReadCluster(cell_km, hours, fault) ==
    \E out \in Returning(ClusterGrid(cell_km, hours, now, store, fault)) :
        /\ answer' = Answer("cluster", [cell_km |-> cell_km, hours |-> hours], fault, out)
        /\ Unwritten

ReadOverlayFeatures(geom_text, hours, fault) ==
    \E out \in IF CutoffRaises(now, hours) THEN Raising
               ELSE Returning(ServiceOverlay(geom_text, hours, now, store, fault)) :
        /\ answer' = Answer("overlay_features", [geom_text |-> geom_text, hours |-> hours],
                 fault, out)
        /\ Unwritten

ReadTimeline(start_iso, end_iso, n, fault) ==
    \E out \in Returning(ServiceTimeline(start_iso, end_iso, n, store, fault)) :
        /\ answer' = Answer("timeline_features", [start_iso |-> start_iso, end_iso |-> end_iso,
                                       limit |-> n], fault, out)
        /\ Unwritten

\* What a conversion hands back: the features, with the result rows they
\* were made of
Converted(op, args, fault, result, features) ==
    [asked |-> TRUE, op |-> op, args |-> args, hours |-> 0,
     failed |-> fault # "none", raised |-> FALSE, rows |-> features,
     result |-> result]

\* api.earthquakes_geojson() without a circle or a box
ReadCollection(hours, fault) ==
    /\ IF CutoffRaises(now, hours)
       THEN \E out \in Raising :
                answer' = Answer("recent_collection", [hours |-> hours], fault, out)
       ELSE \E rows \in GetRecentEarthquakes(hours, now, store, fault) :
                answer' = Converted("recent_collection", [hours |-> hours], fault, rows,
                                    ToFeatureCollection(rows, None))
    /\ Unwritten

\* api.earthquakes_buffer(): _to_feature_collection(rows, "buffer_geojson")
ReadBufferCollection(radius_km, hours, fault) ==
    \E rows \in BufferedEvents(radius_km, hours, now, store, fault) :
        /\ answer' = Converted("buffer_collection",
                               [radius_km |-> radius_km, hours |-> hours], fault, rows,
                               ToFeatureCollection(rows, Some("buffer_geojson")))
        /\ Unwritten

\* service.buffered(radius_km, hours)
ReadBufferedFeatures(radius_km, hours, fault) ==
    \E rows \in BufferedEvents(radius_km, hours, now, store, fault) :
        /\ answer' = Converted("buffered_features",
                               [radius_km |-> radius_km, hours |-> hours], fault, rows,
                               ServiceBuffered(rows))
        /\ Unwritten

NextRead ==
    \/ \E hours \in ReadHours, fault \in Faults : ReadRecent(hours, fault)
    \/ \E lon \in ReferenceLongitudes, radius_km \in RadiusArgs, hours \in ReadHours,
          fault \in Faults : ReadWithinRadius(lon, radius_km, hours, fault)
    \/ \E hours \in ReadHours, fault \in Faults : ReadBbox(hours, fault)
    \/ \E geom_text \in ReadGeomTexts, hours \in ReadHours, fault \in Faults :
            ReadOverlay(geom_text, hours, fault)
    \/ \E lon \in ReferenceLongitudes, n \in ReadLimits, hours \in ReadHours,
          fault \in Faults : ReadNearest(lon, n, hours, fault)
    \/ \E start_iso \in TimeArgs, end_iso \in {None, Some(CanonicalTable[3])},
          n \in ReadLimits, fault \in Faults :
            ReadTimeWindow(start_iso, end_iso, n, fault)
    \/ \E radius_km \in RadiusArgs, hours \in ReadHours, fault \in Faults :
            ReadBuffered(radius_km, hours, fault)
    \/ \E cell_km \in CellArgs, hours \in ReadHours, fault \in Faults :
            ReadCluster(cell_km, hours, fault)
    \/ \E geom_text \in ReadGeomTexts, hours \in ReadHours, fault \in Faults :
            ReadOverlayFeatures(geom_text, hours, fault)
    \/ \E start_iso \in TimeArgs, end_iso \in {None, Some(CanonicalTable[3])},
          n \in ReadLimits, fault \in Faults :
            ReadTimeline(start_iso, end_iso, n, fault)
    \/ \E hours \in ReadHours, fault \in Faults : ReadCollection(hours, fault)
    \/ \E radius_km \in RadiusArgs, hours \in ReadHours, fault \in Faults :
            ReadBufferCollection(radius_km, hours, fault)
    \/ \E radius_km \in RadiusArgs, hours \in ReadHours, fault \in Faults :
            ReadBufferedFeatures(radius_km, hours, fault)

SpecRead == InitRead /\ [][NextRead]_vars

(***************************************************************************)
(* SpecStore: one table under feed messages, bulk imports and reads.       *)
(***************************************************************************)

\* How many rows a CSV file of the model has
MaxCsvRows == 2

EventTime == FeedIsoTable[2]

\* Feed messages that carry a complete event
StoreFeed ==
    {[Payload0 EXCEPT !.unid = u, !.mag = m, !.time = EventTime,
                      !.regionKind = "str", !.regionText = <<"A", ",", "B">>,
                      !.coords = "list", !.clist = <<"10", "20">>] :
        u \in Unids, m \in {"5"}}

\* A row of a file whose header is in lower case
CsvRow(u, t, lon, reg) ==
    [unid |-> u, time |-> t, latitude |-> "20", longitude |-> lon, depth |-> "",
     magnitude |-> "5", region |-> reg]

\* A row of a file that has the columns in both spellings, the lower-case
\* cells empty
BothCsvRow(u) ==
    [unid |-> "", UNID |-> u, time |-> "", TIME |-> EventTime,
     latitude |-> "", LATITUDE |-> "20", longitude |-> "", LONGITUDE |-> "7",
     depth |-> "", DEPTH |-> "7", magnitude |-> "", MAGNITUDE |-> "4",
     region |-> <<>>, REGION |-> <<"A", ",", "B">>]

CsvRows ==
    {CsvRow("u1", EventTime, "10", <<"A", ",", "B">>),
     CsvRow("", EventTime, "10", <<>>),
     CsvRow("u2", EventTime, NonNumericText, <<>>),
     BothCsvRow("u2")}

\* The write that fails in one run of import_csv: none (0) or that of row
\* failAt
FailingWrites(failAt) ==
    [i \in 1..MaxCsvRows |-> IF i = failAt THEN "connection" ELSE "none"]

CsvFiles ==
    UNION {[1..n -> CsvRows] : n \in 1..MaxCsvRows}

InitStore ==
    /\ store = {}
    /\ store0 = {}
    /\ newEq = [u \in Unids |-> 0]
    /\ last = NoCall
    /\ inbox = NoPayload
    /\ hist = <<>>
    /\ SessionIdle
    /\ PoolIdle
    /\ query = NewQuery
    /\ ncalls = 0
    /\ called = {}
    /\ now = MaxHours
    /\ answer = NoAnswer

\* manage.py runs import_csv on one file.
Import(file, faults) ==
    /\ store' = ImportCsv(file, faults, store).store
    /\ UNCHANGED <<newEq, last, inbox, hist, store0>>
    /\ OutsideIngest

NextStore ==
    \/ \E m \in StoreFeed, fault \in Faults : Receive(m, fault)
    \/ \E file \in CsvFiles, failAt \in {0, 1} :
            Import(file, FailingWrites(failAt))
    \/ \E fault \in Faults : ReadRecent(MaxHours, fault)
    \/ \E fault \in Faults : ReadTimeline(None, None, MaxCsvRows, fault)
    \/ \E fault \in Faults : ReadBuffered(1, MaxHours, fault)
    \/ \E fault \in Faults : ReadCluster(111, MaxHours, fault)

SpecStore == InitStore /\ [][NextStore]_vars

(***************************************************************************)
(* SpecImport: import_csv applied once to a CSV file.                      *)
(***************************************************************************)

\* A row of a file whose header is in lower case, with its magnitude cell
MagnitudeCsvRow(u, mag) ==
    [unid |-> u, time |-> EventTime, latitude |-> "20", longitude |-> "10",
     depth |-> "", magnitude |-> mag, region |-> <<>>]

\* A row of a file whose header is in upper case
UpperCsvRow(u) ==
    [UNID |-> u, TIME |-> EventTime, LATITUDE |-> "20", LONGITUDE |-> "10",
     DEPTH |-> "7", MAGNITUDE |-> "5", REGION |-> <<>>]

\* The rows of a file, by the spelling of its header; a row with the empty
\* text for its unid has no identity
LowerRows ==
    {MagnitudeCsvRow(u, mag) : u \in {"", "u1", "u2"}, mag \in {"5", NonNumericText}}
UpperRows == {UpperCsvRow(u) : u \in {"", "u1"}}
BothRows == {BothCsvRow(u) : u \in {"", "u2"}}

ImportFiles ==
    UNION {[1..n -> rows] : n \in 1..MaxCsvRows, rows \in {LowerRows, UpperRows, BothRows}}

InitImport ==
    /\ store = {}
    /\ store0 = {}
    /\ newEq = [u \in Unids |-> 0]
    /\ last = NoCall
    /\ inbox \in {<<file>> : file \in ImportFiles}
    /\ hist = <<>>
    /\ SessionIdle
    /\ PoolIdle
    /\ QueryIdle

\* manage.py runs import_csv on the file; last keeps how the call ended.
ImportFile(failAt) ==
    /\ inbox # NoPayload
    /\ last = NoCall
    /\ LET r == ImportCsv(inbox[1], FailingWrites(failAt), store) IN
        /\ store' = r.store
        /\ hist' = r.calls
        /\ last' = [NoCall EXCEPT !.outcome = IF r.raised THEN "raised" ELSE "imported",
                                  !.raised = r.raised,
                                  !.insertCalls = r.count]
    /\ UNCHANGED <<newEq, inbox, store0>>
    /\ OutsideIngest

NextImport == \E failAt \in {0, 1} : ImportFile(failAt)

SpecImport == InitImport /\ [][NextImport]_vars

(***************************************************************************)
(* SpecRedelivery: the feed delivers events, and delivers them again,      *)
(* while writes fail and succeed.                                          *)
(***************************************************************************)

\* How many messages one behaviour delivers
MaxDeliveries == 3

\* Complete events, with a time the store can cast and with one it cannot
RedeliveryFeed ==
    {[Payload0 EXCEPT !.unid = u, !.mag = "5", !.time = t,
                      !.regionKind = "str", !.regionText = <<"A", "B">>,
                      !.coords = "list", !.clist = <<"10", "20">>] :
        u \in Unids, t \in {EventTime, GarbageTime}}

InitRedelivery ==
    /\ store = {}
    /\ store0 = {}
    /\ newEq = [u \in Unids |-> 0]
    /\ last = NoCall
    /\ inbox = NoPayload
    /\ hist = <<>>
    /\ SessionIdle
    /\ PoolIdle
    /\ QueryIdle

\* listen hands one message to process_message (listener.py line 88); hist
\* keeps the messages delivered so far with what was done about each.
Deliver(m, fault) ==
    /\ Len(hist) < MaxDeliveries
    /\ LET r == ProcessMessage(m, store, fault) IN
        /\ store' = r.store
        /\ last' = r.call
        /\ newEq' = IF r.call.announced
                    THEN [newEq EXCEPT ![r.call.unid] = @ + 1]
                    ELSE newEq
        /\ hist' = Append(hist, [message |-> m, fault |-> fault, call |-> r.call])
    /\ UNCHANGED <<inbox, store0>>
    /\ OutsideIngest

NextRedelivery == \E m \in RedeliveryFeed, fault \in Faults : Deliver(m, fault)

SpecRedelivery == InitRedelivery /\ [][NextRedelivery]_vars

(***************************************************************************)
(* Claims.                                                                 *)
(***************************************************************************)

RowsOf(u) == {r \in store : r.unid = u}

\* Call i of hist met a table that held no row with its unid
FirstForUnid(i) ==
    /\ \A r \in store0 : r.unid # hist[i].data.unid
    /\ \A k \in 1..(i - 1) : hist[k].data.unid = hist[i].data.unid => ~hist[k].ok

\* The write of call k fails for a reason other than a duplicate key
WriteFails(k) == hist[k].fault # "none" \/ StatementRaises(hist[k].data)

SameUnidPairs ==
    {p \in (1..Len(hist)) \X (1..Len(hist)) :
        p[1] < p[2] /\ hist[p[1]].data.unid = hist[p[2]].data.unid}

\* C1 as stated: after any two calls to insert_earthquake with the same unid,
\* both calls returned true, the table holds exactly one row with that unid,
\* and the row carries the first call's values.
C1_TwoInsertsOneRowBothTrue ==
    \A p \in SameUnidPairs :
        /\ hist[p[1]].ok
        /\ hist[p[2]].ok
        /\ RowsOf(hist[p[1]].data.unid) = {RowOf(hist[p[1]].data)}

\* C1 amended: after any two calls to insert_earthquake with the same unid the
\* table holds at most one row with that unid (exactly one when either call
\* returned true); a call returns true exactly when its write does not fail
\* for a reason other than a duplicate key; and when the first call returns
\* true on a table that held no row with that unid, the row carries the first
\* call's values whatever the second call carries.
C1_IdempotentInsert ==
    \A p \in SameUnidPairs :
        LET i == p[1]
            j == p[2]
            u == hist[i].data.unid
        IN  /\ Cardinality(RowsOf(u)) <= 1
            /\ (hist[i].ok \/ hist[j].ok) => Cardinality(RowsOf(u)) = 1
            /\ hist[i].ok <=> ~WriteFails(i)
            /\ hist[j].ok <=> ~WriteFails(j)
            /\ (hist[i].ok /\ FirstForUnid(i)) => RowsOf(u) = {RowOf(hist[i].data)}

\* C1 witness: a second call with the same unid and another magnitude has
\* returned true after a first call that wrote the row.
C1_Witness ==
    \E p \in SameUnidPairs :
        /\ hist[p[1]].ok /\ hist[p[2]].ok /\ FirstForUnid(p[1])
        /\ hist[p[1]].data.magnitude # hist[p[2]].data.magnitude
        /\ RowsOf(hist[p[1]].data.unid) = {RowOf(hist[p[1]].data)}

\* C2 as stated: over any sequence of feed messages, an event is announced as
\* new ("New EQ") at most once per unid.
C2_AnnouncedAtMostOnce == \A u \in Unids : newEq[u] <= 1

\* The payloads C3 is about: not parseable, no JSON object, a data, properties
\* or geometry member that is no object, a coordinates list with fewer than two
\* entries, a null region, or a missing identity, longitude, latitude,
\* magnitude or time.
LacksRequired(m) ==
    \/ m.unid \in {"absent", "null"}
    \/ m.mag \in {"absent", "null"}
    \/ m.time \in {"absent", ""}
    \/ m.coords = "absent"
    \/ m.coords = "list" /\ \E i \in 1..Len(m.clist) : i <= 2 /\ m.clist[i] = "null"

C3_Covered(m) ==
    \/ m.top # "obj"
    \/ m.data \in NonObjects \/ m.props \in NonObjects \/ m.geometry \in NonObjects
    \/ m.coords = "list" /\ Len(m.clist) < 2
    \/ m.regionKind = "null"
    \/ LacksRequired(m)

\* C3 as stated: process_message returns normally, without raising, for every
\* payload that is unparseable or lacks a required member.
C3_MalformedNeverRaises ==
    (last # NoCall /\ C3_Covered(inbox[1])) => ~last.raised

\* The payloads C4 is about: a JSON object without unid or coordinates, or with
\* a null unid, longitude, latitude or magnitude, or an empty time.
C4_Covered(m) ==
    /\ m.top = "obj"
    /\ \/ m.unid \in {"absent", "null"}
       \/ m.coords = "absent"
       \/ m.coords = "list" /\ \E i \in 1..Len(m.clist) : i <= 2 /\ m.clist[i] = "null"
       \/ m.mag = "null"
       \/ m.time = ""

\* C4 as stated: such a message makes no call to insert_earthquake, writes
\* exactly one rejection log line and leaves the table unchanged.
C4_IncompleteOneRejection ==
    (last # NoCall /\ C4_Covered(inbox[1])) =>
        /\ last.insertCalls = 0
        /\ last.rejectLogs = 1
        /\ store = store0

\* C5 as stated, in the form a finite run refutes: while no shutdown has been
\* requested the session has not ended, so that after every transport failure
\* it can re-enter CONNECTING.
C5_RetriesUnlessShutdown == lc = "done" => shutdownRequested

\* C6 as stated, its first half: once a shutdown has been requested the
\* session does not go to CONNECTING, neither at its start nor from waiting
\* out the reconnect delay.
C6_NoConnectAfterShutdown ==
    [][shutdownRequested =>
            ~(lc \in {"spawned", "sleeping"} /\ lc' = "connecting")]_vars

\* C7 as stated: at most one thread at a time is executing a statement on a
\* store connection, also when the calls race on the very first use.
C7_OneThreadInCriticalSection ==
    Cardinality({t \in Threads : tpc[t] = "execute"}) <= 1

\* C8 as stated: the process holds at most one SingleConnectionPool and at
\* most one open store connection.
C8_OnePoolOneConnection ==
    /\ Cardinality({p \in Threads : pools[p].exists}) <= 1
    /\ Cardinality({p \in Threads : pools[p].conn = "open"}) <= 1

\* C9: whatever builder calls were made, _build_sql returns one parameter per
\* '?' placeholder of its text, and the i-th parameter is the one meant for
\* the i-th placeholder from the left (reference point first, then each
\* filter's parameters in clause order).
C9_ParametersMatchPlaceholders ==
    LET sql == BuildSql(query)
        holes == SqlPlaceholders(sql)
    IN  /\ Len(sql.params) = Len(holes)
        /\ \A i \in 1..Len(holes) : sql.params[i].role = holes[i]

\* C10: recent(hours) that did not fail leaves out every stored event earlier
\* than now - hours and returns every stored event at or after now - hours,
\* the event exactly at the cutoff included.
C10_RecentWindowInclusive ==
    (answer.asked /\ ~answer.failed) =>
        \A r \in store :
            LET returned == \E i \in DOMAIN answer.rows : answer.rows[i].unid = r.unid
            IN  /\ r.time < now - answer.hours => ~returned
                /\ r.time >= now - answer.hours => returned

\* The events a window of the given hours keeps: later than the cutoff
InWindow(table, hours) == {r \in table : r.time > now - hours}

\* C11: nearest(lon, lat, limit, hours) returns in-window events only, in
\* ascending order of distance to the reference point, and at most limit of
\* them, limit = 0 included; time_window(start, end, limit) returns at most
\* limit rows.
C11_NearestSortedAndCapped ==
    (answer.asked /\ answer.op \in {"nearest", "time_window"}
                  /\ ~answer.failed /\ ~answer.raised) =>
        /\ Len(answer.rows) <= answer.args.limit
        /\ answer.op = "nearest" =>
            /\ \A i \in DOMAIN answer.rows :
                \E r \in InWindow(store, answer.args.hours) :
                    answer.rows[i].unid = r.unid
            /\ \A i, j \in DOMAIN answer.rows :
                i < j => Abs(answer.rows[i].longitude - answer.args.lon)
                            <= Abs(answer.rows[j].longitude - answer.args.lon)


\* C12: a query function whose query fails, for whatever reason, raises
\* nothing to its caller and returns an empty list or an empty feature
\* collection; computing the cutoff for an out-of-range hours value is one
\* such failure.
C12_FailedQueryReturnsEmpty ==
    answer.asked =>
        /\ ~answer.raised
        /\ answer.failed => answer.rows = <<>>


\* C13: when the write of a message fails for a reason other than a
\* duplicate key (lost connection, NULL or unparseable time), insert_earthquake
\* returns false and nothing is raised, the write was tried exactly once by
\* one call of insert_earthquake, and the step leaves the table as it was.
C13_FailedWriteOnceNoChange ==
    /\ [](last.failure # "none" =>
            /\ ~last.ok /\ ~last.raised /\ ~last.announced
            /\ last.insertCalls = 1 /\ last.attempts = 1)
    /\ [][last'.failure # "none" => store' = store]_vars

\* A write failed on a statement error while the table already held a row
C13_Witness == last.failure = "statement" /\ store # {}


\* C14: the identities stored at startup are in the guard's set before the
\* first message is dispatched, so a message whose unid the table already
\* held is taken as seen: it is neither written again nor announced.
C14_StoredIdentitiesAreSeen ==
    last.existed => (last.insertCalls = 0 /\ ~last.announced)

\* C15 as stated: a forced restart fired while the session is LISTENING closes
\* the connection; the session then leaves LISTENING for the reconnect delay
\* of RECONNECT_DELAY seconds with its connection dropped, and does not end;
\* a forced restart fired in any other state changes nothing of the session.
C15_RestartReconnects ==
    /\ [][(RestartConnection /\ lc = "listening") => currentWs' = "closed"]_vars
    /\ [][(/\ lc = "listening" /\ currentWs = "closed"
           /\ ~shutdownRequested /\ lc' # "listening") =>
                /\ lc' = "sleeping"
                /\ sleepLeft' = RECONNECT_DELAY
                /\ currentWs' = "none"]_vars
    /\ [][(RestartConnection /\ lc # "listening") => UNCHANGED sessionVars]_vars

\* C16 as stated: once a shutdown has been requested the timer does not invoke
\* restart_connection any more, and when the process has ended no streaming
\* connection is open.
C16_ShutdownStopsTimer ==
    /\ [][shutdownRequested => ~RestartConnection]_vars
    /\ [](exited => currentWs # "open")

\* The builder methods that add a spatial predicate
SpatialMethods == {"within_radius", "in_bbox", "intersects", "nearest"}

\* How many times the statement carries the conjunct 'geom IS NOT NULL'
GuardCount(sql) == Len(SelectSeq(sql.where, LAMBDA c : c = GeomGuard))

\* A stored row whose geometry is NULL
GeometrylessRow == [TableRow("u1", 1) EXCEPT !.geom = None]

\* C17: a query on which a spatial builder method was called carries the
\* conjunct 'geom IS NOT NULL' exactly once, and a row without a geometry does
\* not pass its WHERE list; a query on which none was called carries no such
\* conjunct.
C17_GeometryGuardOnce ==
    LET sql == BuildSql(query)
        where_params == SliceFrom(sql.params, Len(Placeholders(sql.select)))
    IN  IF called \cap SpatialMethods # {}
        THEN /\ GuardCount(sql) = 1
             /\ ~ExecuteRaises(sql, "none") =>
                    ~RowPasses(GeometrylessRow, sql.where, where_params)
        ELSE GuardCount(sql) = 0

C17_Witness ==
    /\ {"in_bbox", "nearest", "select"} \subseteq called
    /\ GuardCount(BuildSql(query)) = 1

\* str: the text contains a comma
HasComma(text) == \E i \in DOMAIN text : text[i] = ","

\* C18: every stored row's geometry is the point of that row's (longitude,
\* latitude), after any sequence of feed writes and bulk imports, and no step
\* changes a row's coordinates without its geometry or its geometry without
\* its coordinates.
C18_GeometryMatchesCoordinates ==
    /\ [](\A r \in store : r.geom = STPoint(r.longitude, r.latitude))
    /\ [][\A r \in store, w \in store' :
            r.unid = w.unid =>
                (r.geom = w.geom <=>
                    (r.longitude = w.longitude /\ r.latitude = w.latitude))]_vars

C18_Witness ==
    /\ \E r \in store : r.region = <<"A", " ", "B">> /\ r.longitude = 10
    /\ \E r \in store : r.longitude = 7 /\ r.geom = STPoint(7, 20)

\* C19 as stated: no stored row's region contains a comma, whichever of
\* process_message and import_csv wrote the row.
C19_NoCommaInRegion == \A r \in store : ~HasComma(r.region)

\* C20: rows are only added. Every step keeps every stored row as it is,
\* whether an insert (new, duplicate or failed), an import or a read; a step
\* that answers a read leaves the table as it was.
C20_RowsOnlyAdded ==
    /\ [][store \subseteq store']_vars
    /\ [][answer' # answer => store' = store]_vars

C20_Witness ==
    /\ Cardinality(store) = 2
    /\ last.existed /\ last.ok
    /\ answer.asked /\ answer.rows # <<>>

\* The sum of the counts of a list of cells
RECURSIVE CountsOf(_)
CountsOf(cells) ==
    IF cells = <<>> THEN 0 ELSE Head(cells).count + CountsOf(Tail(cells))

\* The answer in hand is that of a cluster_grid call whose statement ran: the
\* connection held and the cutoff could be computed
ClusterAnswered(a) ==
    /\ a.asked /\ a.op = "cluster" /\ ~a.failed /\ ~a.raised
    /\ ~CutoffRaises(now, a.args.hours)

IdentityOf(row) == Or(GetCell(row, "unid"), GetCell(row, "UNID"))

\* The rows of a file that have an identity, in the order of the file
WithIdentity(file) == SelectSeq(file, LAMBDA row : ~Falsy(IdentityOf(row)))

\* C22 as stated: import_csv ends without an exception whatever the spelling
\* of the header and whatever a row without identity holds, and it has passed
\* every row that has an identity, and no other, to insert_earthquake.
C22_ImportToleratesCaseAndSkips ==
    (inbox # NoPayload /\ last # NoCall) =>
        /\ ~last.raised
        /\ Len(hist) = Len(WithIdentity(inbox[1]))
        /\ \A k \in DOMAIN hist :
                hist[k].data.unid = IdentityOf(WithIdentity(inbox[1])[k])

\* A row without the columns that carry its geometry
Without(row, columns) == [k \in DOMAIN row \ columns |-> row[k]]

\* The collection in hand was made by converting the rows of a query
ConvertedAnswer(a) ==
    /\ a.asked /\ ~a.raised
    /\ a.op \in {"recent_collection", "buffer_collection", "buffered_features"}

\* The collection in hand was made by to_geojson() over SELECT * of the table
GeoJsonAnswer(a) ==
    /\ a.asked /\ ~a.raised
    /\ a.op \in {"overlay_features", "timeline_features"}

\* The features of api._to_feature_collection and of service.buffered carry
\* every column of their row but the geometry column, unchanged
C23_ConvertedKeepEveryColumn ==
    ConvertedAnswer(answer) =>
        \A i \in DOMAIN answer.rows :
            \E k \in DOMAIN answer.result :
                answer.rows[i].properties
                    = Without(answer.result[k], {"geom", "buffer_geojson"})

\* C23 as stated: in every feature collection the core produces, a feature's
\* properties are the columns of its result row other than the geometry
\* column, with their values: none is dropped and none is added. The result
\* row of a to_geojson() feature is the row SELECT * gives for its unid.
C23_PropertiesAreTheRow ==
    /\ C23_ConvertedKeepEveryColumn
    /\ GeoJsonAnswer(answer) =>
            \A i \in DOMAIN answer.rows :
                \E r \in store :
                    /\ r.unid = answer.rows[i].properties.unid
                    /\ answer.rows[i].properties = Without(r, {"geom"})

\* Thread t is not inside the with statement of acquire()
OutsideLock(t) == tpc[t] \in {"idle", "test", "create", "read", "acquire"}

C26_CloseWaitsForStatement ==
    /\ [](\A t \in Threads : tpc[t] = "execute" => pools[tpool[t]].conn = "open")
    /\ [][\A t \in Threads :
            tpc[t] = "execute" =>
                /\ tpc'[t] \in {"execute", "release"}
                /\ pools'[tpool[t]].conn = "open"]_vars
    /\ [][(ClosePool /\ pools[connectionPool].conn = "open") =>
                \A t \in Threads : tpc[t] \in {"ensure", "execute", "release"} =>
                                        tpool[t] # connectionPool]_vars

\* A thread runs its statement on the connection of the pool that cleanup
\* would close: close() cannot go on
C26_Witness ==
    /\ connectionPool # 0
    /\ pools[connectionPool].conn = "open"
    /\ \E t \in Threads : /\ tpc[t] = "execute"
                           /\ tpool[t] = connectionPool
                           /\ pools[connectionPool].owner = t
    /\ ~ENABLED ClosePool

\* The deliveries before the j-th that carried the same identity
EarlierDeliveries(j) ==
    {i \in 1..(j - 1) : hist[i].message.unid = hist[j].message.unid}

\* C25: a delivery is taken as a duplicate (its write is a no-op) only when
\* an earlier write of its identity succeeded; as long as every write of an
\* identity has failed, a redelivery of it is handed to insert_earthquake
\* again, and it is written and announced when its write does not fail.
C25_FailedWriteNotSeen ==
    \A j \in DOMAIN hist :
        LET written == \E i \in EarlierDeliveries(j) : hist[i].call.ok
            c == hist[j].call
        IN  /\ c.existed => written
            /\ ~written =>
                    /\ c.insertCalls = 1
                    /\ c.failure = "none" =>
                            /\ c.ok /\ c.announced /\ ~c.existed
                            /\ \E r \in store : r.unid = hist[j].message.unid

\* An event whose first write failed on a lost connection was delivered
\* again, written and announced
C25_Witness ==
    \E j \in DOMAIN hist :
        /\ EarlierDeliveries(j) # {}
        /\ \A i \in EarlierDeliveries(j) : hist[i].call.failure = "connection"
        /\ hist[j].call.ok /\ hist[j].call.announced /\ ~hist[j].call.existed
        /\ \E r \in store : r.unid = hist[j].message.unid

\* C28: when process_message announces an event ("New EQ"), the message had
\* passed validation, its write had returned true, and the table holds a row
\* with the event's identity.
C28_AnnouncedIsStored ==
    /\ last.announced =>
            /\ last.outcome = "written" /\ last.ok /\ ~last.raised
            /\ last.rejectLogs = 0 /\ last.failure = "none"
            /\ \E r \in store : r.unid = last.unid
    /\ \A u \in Unids : newEq[u] > 0 => \E r \in store : r.unid = u
    /\ (last # NoCall /\ last.outcome # "written") => \A u \in Unids : newEq[u] = 0

\* An event was written and announced
C28_Witness ==
    /\ last.announced
    /\ newEq[last.unid] = 1
    /\ \E r \in store \ store0 : r.unid = last.unid

\* C27: whatever the filter calls and the reference point, the query built
\* with nearest at one place of the chain has the text and the parameter
\* list of the query built with nearest at any other place: before the
\* filters, between them or after them.
C27_NearestPlacementFree ==
    (answer.asked /\ answer.op = "build_sql") =>
        \A pos \in 0..Len(answer.args.calls) :
            BuildSql(WithNearest(answer.args.calls, pos, answer.args.lon,
                                 answer.args.lat, answer.args.limit, now))
                = answer.sql

\* nearest was called between a time filter and a spatial filter
C27_Witness ==
    /\ answer.asked /\ answer.op = "build_sql"
    /\ Len(answer.args.calls) = 2
    /\ answer.args.pos = 1
    /\ answer.args.calls = <<"since(1)", "within_radius">>
    /\ answer.sql = BuildSql(query)
    /\ Len(answer.sql.params) = 6

====
